---- MODULE Spec2Model ----
(***************************************************************************)
(* A model of the retrieval pipeline of the document question-answering    *)
(* service: the chunker (src/document_parser.py), the per-session vector   *)
(* store (src/vector_store.py), the session manager                        *)
(* (src/session_manager.py) and the upload, chat and delete routes that    *)
(* tie them together (src/app2.py).                                        *)
(*                                                                         *)
(* Specifications:                                                         *)
(*   Spec        the VectorStore API called directly, one call at a time,  *)
(*               on two session ids, with small chunk lists;               *)
(*   SpecSearch  similarity_search with several queries and limits on      *)
(*               sessions built without write failures;                    *)
(*   SpecBatch   create_embeddings on chunk lists of one, two and three    *)
(*               embedding batches (the batch size is the code's 100);     *)
(*   SpecScope   the VectorStore API on two sessions, each built from      *)
(*               chunk lists of its own;                                   *)
(*   SpecConc    two calls of the VectorStore at once on one session, one  *)
(*               access to the file system per step;                       *)
(*   SpecQueries two searches at once on a built session;                  *)
(*   SpecApp     the routes of app2.py over SessionManager and             *)
(*               VectorStore;                                              *)
(*   SpecParse   DocumentParser.parse_document;                            *)
(*   SpecChunk   DocumentParser.chunk_text, one loop iteration per step;   *)
(*   SpecPipeline chunk_text followed by create_embeddings on its chunks,  *)
(*               and searches.                                             *)
(*                                                                         *)
(* Environment: the embedding provider, faiss, pickle, the file system,    *)
(* nltk, tiktoken and the document libraries (pdfplumber, PyMuPDF,         *)
(* pytesseract, python-docx) are outside the repository.  They are         *)
(* modelled by what the code relies on:                                    *)
(*   - the provider returns one vector per input text, in input order, or  *)
(*     the call raises;                                                    *)
(*   - a file write either completes or raises leaving the file as it was; *)
(*     a read of an existing file may raise;  shutil.rmtree removes the    *)
(*     whole directory;                                                    *)
(*   - vectors have two integer components (the code's dimension is 1536)  *)
(*     and a normalised vector has length 5 instead of 1, so that inner    *)
(*     products stay integers;                                             *)
(*   - a flat inner-product index returns the k best positions by          *)
(*     non-increasing score and fills the missing ones with -1.            *)
(***************************************************************************)
EXTENDS Integers, Sequences, FiniteSets, TLC

VARIABLES
    fs,             \* embeddings folder: session id -> directory and files
    last,           \* the VectorStore call of the last step, and its result
    sessions,       \* SessionManager.sessions: session id -> record
    issued,         \* session ids create_session has handed out so far
    resp,           \* the response of the route that returned last
    chunk_size,     \* DocumentParser.chunk_size
    chunk_overlap,  \* DocumentParser.chunk_overlap
    text,           \* chunk_text: the input text
    pc,             \* chunk_text: position in the method
    sentences,      \* chunk_text: sent_tokenize(text)
    pos,            \* chunk_text: number of sentences the loop has consumed
    chunks,         \* chunk_text: the list of emitted chunks
    current_chunk,  \* chunk_text: the buffer
    current_tokens, \* chunk_text: the running token count
    added,          \* history: per emitted chunk, its seed and the sentences
                    \*   appended to it
    cur,            \* history: seed and appended sentences of the buffer
    procs,          \* concurrent callers of the VectorStore: their locals
    builds_overlapped, \* history: two create_embeddings calls ran at once
    parse           \* parse_document: its inputs, calls and result

appVars == <<sessions, issued, resp>>
chunkVars == <<chunk_size, chunk_overlap, text, pc, sentences, pos, chunks,
               current_chunk, current_tokens, added, cur>>
concVars == <<procs, builds_overlapped>>
vars == <<fs, last, sessions, issued, resp, chunk_size, chunk_overlap, text,
          pc, sentences, pos, chunks, current_chunk, current_tokens, added, cur,
          procs, builds_overlapped, parse>>

(***************************************************************************)
(* Bounds of the model and constants of the program.                       *)
(***************************************************************************)
MaxChunks == 3      \* Spec: longest chunk list handed to create_embeddings
MaxExtra == 1       \* SpecBatch: chunks beyond the last full batch
BatchSize == 100    \* create_embeddings: batch_size
DefaultK == 5       \* similarity_search: k = 5

SessionIds == {"s1", "s2"}
Users == {"u1", "u2"}

Min(a, b) == IF a <= b THEN a ELSE b

Abs(a) == IF a < 0 THEN -a ELSE a

(***************************************************************************)
(* Chunk lists as create_embeddings receives them.  In the store's         *)
(* specifications a chunk's text is an opaque identifier (a number); its   *)
(* token count plays no part there.                                        *)
(***************************************************************************)
MkChunks(n) ==
    [i \in 1..n |-> [text |-> i, token_count |-> 1, chunk_id |-> i - 1]]

SmallChunkLists == {MkChunks(n) : n \in 0..MaxChunks}

FewChunkLists == {MkChunks(n) : n \in {0, 1, MaxChunks}}

BatchChunkLists ==
    {MkChunks(n) : n \in {0, 1, BatchSize, BatchSize + MaxExtra,
                          2 * BatchSize + MaxExtra}}

\* Chunk lists whose texts tell which session they were handed in for.
SessionTag(sid) == IF sid = "s1" THEN 10 ELSE 20

TaggedChunks(tag, n) ==
    [i \in 1..n |-> [text |-> tag + i, token_count |-> 1, chunk_id |-> i - 1]]

SessionChunkLists(sid) ==
    {TaggedChunks(SessionTag(sid), n) : n \in {1, MaxChunks - 1}}

Queries == {101, 102, 103}

KValues == (1..MaxChunks) \cup {DefaultK}

(***************************************************************************)
(* The embedding provider: one raw vector per text, a function of the      *)
(* text.  Every raw vector has an integer length (5 or 10).                *)
(***************************************************************************)
RawVecs ==
    << <<3, 4>>, <<5, 0>>, <<0, 5>>, <<-6, -8>>, <<4, 3>>, <<0, -10>>, <<8, 6>> >>

Embed(t) == RawVecs[(t % Len(RawVecs)) + 1]

\* faiss.normalize_L2, to length 5.
Norm(v) == CHOOSE r \in 0..(Abs(v[1]) + Abs(v[2])) : r * r = v[1] * v[1] + v[2] * v[2]

NormalizeL2(v) == <<(v[1] * 5) \div Norm(v), (v[2] * 5) \div Norm(v)>>

InnerProduct(v, w) == v[1] * w[1] + v[2] * w[2]

(***************************************************************************)
(* Files.  A file is <<>> when absent and <<content>> when present.        *)
(***************************************************************************)
NoFile == <<>>

File(content) == <<content>>

NoDir == [dir |-> FALSE, index |-> NoFile, meta |-> NoFile, info |-> NoFile]

Exists(f) == f # NoFile

Content(f) == f[1]

(***************************************************************************)
(* The directory of a session, os.path.join(embeddings_folder,             *)
(* session_id): the directories are named by the session ids.              *)
(***************************************************************************)
\* Mutant: every session is kept in one and the same directory.
session_folder_shared(sid) == "s1"

session_folder(sid) == sid

(***************************************************************************)
(* VectorStore.create_embeddings and VectorStore._save_index.              *)
(*                                                                         *)
(* failBatch is the environment's choice of the embedding call that raises *)
(* (0: none does); wfault is its choice of the write that raises.          *)
(***************************************************************************)
WriteFaults == {"none", "makedirs", "write_index", "write_meta", "write_info"}

NumBatches(n) == (n + BatchSize - 1) \div BatchSize

\* Mutant: a batch takes one text more, the first text of the next batch.
BatchTexts_one_more(texts, i) == SubSeq(texts, i + 1, Min(i + BatchSize + 1, Len(texts)))

\* batch_texts = texts[i:i + batch_size], i counted from 0
BatchTexts(texts, i) == SubSeq(texts, i + 1, Min(i + BatchSize, Len(texts)))

\* The inputs of the embeddings.create calls of the loop, one per call.
BatchInputs(texts) ==
    [b \in 1..NumBatches(Len(texts)) |-> BatchTexts(texts, (b - 1) * BatchSize)]

\* response.data of one embeddings.create call: one vector per input, in order
EmbedBatch(batch) == [j \in 1..Len(batch) |-> Embed(batch[j])]

\* the loop "for i in range(0, len(texts), batch_size)": embeddings.extend(...)
RECURSIVE EmbedAll(_, _)
EmbedAll(texts, i) ==
    IF i >= Len(texts) THEN <<>>
    ELSE EmbedBatch(BatchTexts(texts, i)) \o EmbedAll(texts, i + BatchSize)

\* normalize_L2(embeddings_array); index.add(embeddings_array)
BuildIndex(embeddings) == [i \in 1..Len(embeddings) |-> NormalizeL2(embeddings[i])]

SessionInfo(sid, chunks_metadata) ==
    [session_id |-> sid, num_chunks |-> Len(chunks_metadata)]

\* The three writes in the order of the code; the first that raises ends it.
save_index(st, sid, index, chunks_metadata, wfault) ==
    IF wfault = "makedirs" THEN [raised |-> TRUE, st |-> st]
    ELSE LET d == [st EXCEPT !.dir = TRUE] IN
    IF wfault = "write_index" THEN [raised |-> TRUE, st |-> d]
    ELSE LET a == [d EXCEPT !.index = File(index)] IN
    IF wfault = "write_meta" THEN [raised |-> TRUE, st |-> a]
    ELSE LET b == [a EXCEPT !.meta = File(chunks_metadata)] IN
    IF wfault = "write_info" THEN [raised |-> TRUE, st |-> b]
    ELSE [raised |-> FALSE,
          st |-> [b EXCEPT !.info = File(SessionInfo(sid, chunks_metadata))]]

\* Mutant: a failed batch ends the loop instead of the call, and the vectors
\* gathered so far are indexed and saved.
create_embeddings_partial(st, chunks_in, sid, failBatch, wfault) ==
    IF chunks_in = <<>>
    THEN [ret |-> "False", calls |-> 0, batches |-> <<>>, st |-> st]
    ELSE LET texts == [i \in 1..Len(chunks_in) |-> chunks_in[i].text]
             done == IF failBatch > 0
                     THEN SubSeq(texts, 1, (failBatch - 1) * BatchSize)
                     ELSE texts
             saved == save_index(st, sid, BuildIndex(EmbedAll(done, 0)),
                                 chunks_in, wfault)
         IN [ret |-> IF saved.raised THEN "raise" ELSE "True",
             calls |-> IF failBatch > 0 THEN failBatch
                       ELSE NumBatches(Len(texts)),
             batches |-> IF failBatch > 0
                         THEN SubSeq(BatchInputs(texts), 1, failBatch)
                         ELSE BatchInputs(texts),
             st |-> saved.st]

\* Mutant: an empty chunk list is indexed and saved like any other.
create_embeddings_saves_empty(st, chunks_in, sid, failBatch, wfault) ==
    LET texts == [i \in 1..Len(chunks_in) |-> chunks_in[i].text] IN
    IF failBatch > 0
    THEN [ret |-> "raise", calls |-> failBatch,
          batches |-> SubSeq(BatchInputs(texts), 1, failBatch), st |-> st]
    ELSE LET index == BuildIndex(EmbedAll(texts, 0))
             saved == save_index(st, sid, index, chunks_in, wfault)
         IN [ret |-> IF saved.raised THEN "raise" ELSE "True",
             calls |-> NumBatches(Len(texts)),
             batches |-> BatchInputs(texts),
             st |-> saved.st]

\* ret is "True", "False" or "raise"; calls counts the embedding calls made
\* and batches holds their inputs.
create_embeddings(st, chunks_in, sid, failBatch, wfault) ==
    IF chunks_in = <<>>
    THEN [ret |-> "False", calls |-> 0, batches |-> <<>>, st |-> st]
    ELSE LET texts == [i \in 1..Len(chunks_in) |-> chunks_in[i].text] IN
    IF failBatch > 0
    THEN [ret |-> "raise", calls |-> failBatch,
          batches |-> SubSeq(BatchInputs(texts), 1, failBatch), st |-> st]
    ELSE LET index == BuildIndex(EmbedAll(texts, 0))
             saved == save_index(st, sid, index, chunks_in, wfault)
         IN [ret |-> IF saved.raised THEN "raise" ELSE "True",
             calls |-> NumBatches(Len(texts)),
             batches |-> BatchInputs(texts),
             st |-> saved.st]

(***************************************************************************)
(* VectorStore._load_index, the flat inner-product index's search, and     *)
(* VectorStore.similarity_search.                                          *)
(***************************************************************************)
SearchFaults == {"none", "read", "embed"}

NotLoaded == [found |-> FALSE, index |-> <<>>, meta |-> <<>>]

\* (None, None) when a path is missing or a read raises.
load_index(st, fault) ==
    IF ~st.dir THEN NotLoaded
    ELSE IF ~Exists(st.index) THEN NotLoaded
    ELSE IF fault = "read" THEN NotLoaded
    ELSE IF ~Exists(st.meta) THEN NotLoaded
    ELSE [found |-> TRUE, index |-> Content(st.index), meta |-> Content(st.meta)]

\* The best of the positions in rem: highest score, lowest position on a tie.
BestOf(index, q, rem) ==
    CHOOSE i \in rem : \A j \in rem :
        \/ InnerProduct(index[i], q) > InnerProduct(index[j], q)
        \/ InnerProduct(index[i], q) = InnerProduct(index[j], q) /\ i <= j

\* index.search(query_embedding, k): k entries, positions counted from 0,
\* the entries beyond the index's size filled with position -1.
RECURSIVE TopK(_, _, _, _)
TopK(index, q, k, rem) ==
    IF k = 0 THEN <<>>
    ELSE IF rem = {} THEN <<[score |-> -26, idx |-> -1]>> \o TopK(index, q, k - 1, rem)
    ELSE LET i == BestOf(index, q, rem)
         IN <<[score |-> InnerProduct(index[i], q), idx |-> i - 1]>>
            \o TopK(index, q, k - 1, rem \ {i})

index_search(index, q, k) == TopK(index, q, k, 1..Len(index))

\* Mutant: rank = i, counted from 0.
ResultEntry_rank_from_zero(chunk, score, i) ==
    [text |-> chunk.text, token_count |-> chunk.token_count,
     chunk_id |-> chunk.chunk_id, similarity_score |-> score, rank |-> i]

\* chunk = chunks_metadata[idx].copy() with similarity_score and rank added;
\* i is enumerate's counter, which starts at 0.
ResultEntry(chunk, score, i) ==
    [text |-> chunk.text, token_count |-> chunk.token_count,
     chunk_id |-> chunk.chunk_id, similarity_score |-> score, rank |-> i + 1]

\* Mutant: a position without a metadata entry is skipped, not an error.
PrepareResults_skip_missing(hits, chunks_metadata) ==
    LET numbered == [i \in 1..Len(hits) |-> [hit |-> hits[i], i |-> i - 1]]
        IsValid(e) == e.hit.idx # -1 /\ e.hit.idx < Len(chunks_metadata)
        valid == SelectSeq(numbered, IsValid)
    IN [j \in 1..Len(valid) |->
           ResultEntry(chunks_metadata[valid[j].hit.idx + 1],
                       valid[j].hit.score, valid[j].i)]

\* Mutant: no test for idx = -1; chunks_metadata[-1] is Python's last element.
PrepareResults_no_invalid_test(hits, chunks_metadata) ==
    IF \E j \in 1..Len(hits) : hits[j].idx >= Len(chunks_metadata)
    THEN <<>>
    ELSE [j \in 1..Len(hits) |->
             ResultEntry(chunks_metadata[IF hits[j].idx = -1
                                         THEN Len(chunks_metadata)
                                         ELSE hits[j].idx + 1],
                         hits[j].score, j - 1)]

\* The loop over zip(scores[0], indices[0]); an idx beyond chunks_metadata
\* raises IndexError, which the method's handler turns into [].
PrepareResults(hits, chunks_metadata) ==
    LET numbered == [i \in 1..Len(hits) |-> [hit |-> hits[i], i |-> i - 1]]
        IsValid(e) == e.hit.idx # -1
        valid == SelectSeq(numbered, IsValid)
    IN IF \E j \in 1..Len(valid) : valid[j].hit.idx >= Len(chunks_metadata)
       THEN <<>>
       ELSE [j \in 1..Len(valid) |->
                ResultEntry(chunks_metadata[valid[j].hit.idx + 1],
                            valid[j].hit.score, valid[j].i)]

\* Mutant: the query is embedded before the index is loaded.
similarity_search_embed_first(st, query, k, fault) ==
    LET ld == load_index(st, fault) IN
    IF fault = "embed" THEN [results |-> <<>>, calls |-> 1]
    ELSE IF ~ld.found THEN [results |-> <<>>, calls |-> 1]
    ELSE LET q == NormalizeL2(Embed(query))
         IN [results |-> PrepareResults(index_search(ld.index, q, k), ld.meta),
             calls |-> 1]

similarity_search(st, query, k, fault) ==
    LET ld == load_index(st, fault) IN
    IF ~ld.found THEN [results |-> <<>>, calls |-> 0]
    ELSE IF fault = "embed" THEN [results |-> <<>>, calls |-> 1]
    ELSE LET q == NormalizeL2(Embed(query))
         IN [results |-> PrepareResults(index_search(ld.index, q, k), ld.meta),
             calls |-> 1]

(***************************************************************************)
(* VectorStore.session_exists and VectorStore.delete_session.              *)
(***************************************************************************)
\* Mutant: only the index file is looked for.
session_exists_index_only(st) == Exists(st.index)

session_exists(st) == Exists(st.index) /\ Exists(st.meta)

\* Mutant: the files are removed and the directory is left behind.
delete_session_keep_dir(st) ==
    IF st.dir THEN [ret |-> "True", st |-> [NoDir EXCEPT !.dir = TRUE]]
    ELSE [ret |-> "False", st |-> st]

\* shutil.rmtree is taken to remove the directory, so the handler that
\* returns False for a failed removal (lines 223-225) is not reached.
delete_session(st) ==
    IF st.dir THEN [ret |-> "True", st |-> NoDir]
    ELSE [ret |-> "False", st |-> st]

(***************************************************************************)
(* The calls of the VectorStore API as actions.  last records the call     *)
(* that returned, with its inputs, its result and the number of embedding  *)
(* calls it made (in the upload route: the call of the pipeline that       *)
(* returned or raised last).                                               *)
(***************************************************************************)
NoCall ==
    [op |-> "none", sid |-> "", ret |-> "", results |-> <<>>, calls |-> 0,
     k |-> 0, query |-> 0, chunks |-> <<>>, batches |-> <<>>,
     fault |-> "none"]

InitStore ==
    /\ fs = [s \in SessionIds |-> NoDir]
    /\ last = NoCall

CreateEmbeddings(ids, lists, wfaults) ==
    \E s \in ids, cl \in lists, wf \in wfaults :
    \E fb \in 0..NumBatches(Len(cl)) :
        /\ (cl = <<>> \/ fb > 0) => wf = "none"
        /\ LET r == create_embeddings(fs[session_folder(s)], cl, s, fb, wf)
           IN /\ fs' = [fs EXCEPT ![session_folder(s)] = r.st]
              /\ last' = [NoCall EXCEPT !.op = "create_embeddings", !.sid = s,
                                        !.ret = r.ret, !.calls = r.calls,
                                        !.chunks = cl, !.batches = r.batches,
                                        !.fault = IF fb > 0 THEN "embed" ELSE wf]
        /\ UNCHANGED <<appVars, chunkVars, concVars, parse>>

SimilaritySearch(queries, ks, faults) ==
    \E s \in SessionIds, q \in queries, k \in ks, f \in faults :
        LET r == similarity_search(fs[session_folder(s)], q, k, f)
        IN /\ last' = [NoCall EXCEPT !.op = "similarity_search", !.sid = s,
                                     !.ret = "list", !.results = r.results,
                                     !.calls = r.calls, !.k = k, !.query = q,
                                     !.fault = f]
           /\ UNCHANGED <<fs, appVars, chunkVars, concVars, parse>>

SessionExists ==
    \E s \in SessionIds :
        /\ last' = [NoCall EXCEPT !.op = "session_exists", !.sid = s,
                                  !.ret = IF session_exists(fs[session_folder(s)])
                                          THEN "True"
                                          ELSE "False"]
        /\ UNCHANGED <<fs, appVars, chunkVars, concVars, parse>>

DeleteSession(ids) ==
    \E s \in ids :
        LET r == delete_session(fs[session_folder(s)])
        IN /\ fs' = [fs EXCEPT ![session_folder(s)] = r.st]
           /\ last' = [NoCall EXCEPT !.op = "delete_session", !.sid = s,
                                     !.ret = r.ret]
           /\ UNCHANGED <<appVars, chunkVars, concVars, parse>>

(***************************************************************************)
(* Text, sentences and tokens.  A text is a sequence of characters.  The   *)
(* letters stand for words, "1" for a number, "." ends a sentence.         *)
(*                                                                         *)
(* sent_tokenize (nltk) is modelled as: a sentence ends at a "." that is   *)
(* followed by a space; the sentences are the trimmed pieces.              *)
(*                                                                         *)
(* The tokenizer (tiktoken, cl100k_base) is modelled by its splitting      *)
(* pattern, every piece being one token: a run of letters with at most one *)
(* space before it, a run of up to three digits (a space before a digit is *)
(* a token of its own), a run of punctuation with at most one space before *)
(* it, a run of spaces (less its last space when more text follows).       *)
(* decode concatenates the pieces.                                         *)
(***************************************************************************)
MaxSentences == 3   \* SpecChunk: sentences in the input text
MaxChunkSize == 6   \* SpecChunk: largest chunk_size
MaxOverlap == 4     \* SpecChunk: largest chunk_overlap

Letters == {"a", "b"}
Digits == {"1"}
Puncts == {"."}
Spaces == {" "}

SentencePool ==
    { <<"a", ".">>,
      <<"1", " ", "a", ".">>,
      <<"a", " ", "b", " ", "a", ".">> }

\* str.strip()
RECURSIVE LStrip(_)
LStrip(t) == IF t # <<>> /\ Head(t) \in Spaces THEN LStrip(Tail(t)) ELSE t

RECURSIVE RStrip(_)
RStrip(t) ==
    IF t # <<>> /\ t[Len(t)] \in Spaces THEN RStrip(SubSeq(t, 1, Len(t) - 1)) ELSE t

Strip(t) == RStrip(LStrip(t))

\* " ".join(ss)
RECURSIVE JoinSp(_)
JoinSp(ss) ==
    IF ss = <<>> THEN <<>>
    ELSE IF Len(ss) = 1 THEN ss[1]
    ELSE ss[1] \o <<" ">> \o JoinSp(Tail(ss))

\* sent_tokenize(text): from is the start of the piece being read.
RECURSIVE SentFrom(_, _, _)
SentFrom(t, from, i) ==
    IF i > Len(t)
    THEN IF Strip(SubSeq(t, from, Len(t))) = <<>> THEN <<>>
         ELSE <<Strip(SubSeq(t, from, Len(t)))>>
    ELSE IF t[i] \in Puncts /\ i < Len(t) /\ t[i + 1] \in Spaces
    THEN <<Strip(SubSeq(t, from, i))>> \o SentFrom(t, i + 1, i + 1)
    ELSE SentFrom(t, from, i + 1)

sent_tokenize(t) == SentFrom(t, 1, 1)

\* The number of characters from position i on that belong to class.
RECURSIVE RunLen(_, _, _)
RunLen(t, i, class) ==
    IF i > Len(t) \/ t[i] \notin class THEN 0 ELSE 1 + RunLen(t, i + 1, class)

\* The length of the token that starts at position i.
PieceLen(t, i) ==
    IF t[i] \in Letters THEN RunLen(t, i, Letters)
    ELSE IF t[i] \in Digits THEN Min(3, RunLen(t, i, Digits))
    ELSE IF t[i] \in Puncts THEN RunLen(t, i, Puncts)
    ELSE IF i < Len(t) /\ t[i + 1] \in Letters THEN 1 + RunLen(t, i + 1, Letters)
    ELSE IF i < Len(t) /\ t[i + 1] \in Puncts THEN 1 + RunLen(t, i + 1, Puncts)
    ELSE LET n == RunLen(t, i, Spaces)
         IN IF i + n > Len(t) THEN n ELSE IF n >= 2 THEN n - 1 ELSE 1

RECURSIVE EncodeFrom(_, _)
EncodeFrom(t, i) ==
    IF i > Len(t) THEN <<>>
    ELSE <<SubSeq(t, i, i + PieceLen(t, i) - 1)>> \o EncodeFrom(t, i + PieceLen(t, i))

\* tokenizer.encode(text): the tokens, each the characters it stands for
Encode(t) == EncodeFrom(t, 1)

\* tokenizer.decode(tokens)
RECURSIVE Decode(_)
Decode(toks) == IF toks = <<>> THEN <<>> ELSE Head(toks) \o Decode(Tail(toks))

(***************************************************************************)
(* DocumentParser._get_overlap_text and DocumentParser.chunk_text.         *)
(***************************************************************************)
\* Mutant: the first overlap_tokens tokens are taken, not the last.
get_overlap_text_first_tokens(t, overlap_tokens) ==
    IF overlap_tokens <= 0 THEN <<>>
    ELSE LET tokens == Encode(t)
         IN IF Len(tokens) <= overlap_tokens THEN t
            ELSE Decode(SubSeq(tokens, 1, overlap_tokens))

\* Mutant: no test for overlap_tokens <= 0; tokens[-0:] is the whole list
\* and tokens[1:] the list without its first token.
get_overlap_text_no_guard(t, overlap_tokens) ==
    LET tokens == Encode(t)
    IN IF Len(tokens) <= overlap_tokens THEN t
       ELSE IF overlap_tokens = 0 THEN Decode(tokens)
       ELSE IF overlap_tokens < 0
       THEN Decode(SubSeq(tokens, 1 - overlap_tokens, Len(tokens)))
       ELSE Decode(SubSeq(tokens, Len(tokens) - overlap_tokens + 1, Len(tokens)))

get_overlap_text(t, overlap_tokens) ==
    IF overlap_tokens <= 0 THEN <<>>
    ELSE LET tokens == Encode(t)
         IN IF Len(tokens) <= overlap_tokens THEN t
            ELSE Decode(SubSeq(tokens, Len(tokens) - overlap_tokens + 1, Len(tokens)))

\* Mutant: the chunks are numbered from 1.
NewChunk_id_from_one(buffer, tokens, emitted) ==
    [text |-> Strip(buffer), token_count |-> tokens, chunk_id |-> Len(emitted) + 1]

\* {'text': current_chunk.strip(), 'token_count': ..., 'chunk_id': len(chunks)}
NewChunk(buffer, tokens, emitted) ==
    [text |-> Strip(buffer), token_count |-> tokens, chunk_id |-> Len(emitted)]

\* Mutant: the current chunk is closed also when the buffer is empty.
MustClose_any_buffer(tokens, sentence_tokens, buffer) ==
    tokens + sentence_tokens > chunk_size

\* Mutant: the current chunk is closed already when the size is reached.
MustClose_at_limit(tokens, sentence_tokens, buffer) ==
    tokens + sentence_tokens >= chunk_size /\ buffer # <<>>

\* current_tokens + sentence_tokens > self.chunk_size and current_chunk
MustClose(tokens, sentence_tokens, buffer) ==
    tokens + sentence_tokens > chunk_size /\ buffer # <<>>

\* Mutant: the chunk that follows a close starts with the overlap alone.
SeededBuffer_without_sentence(overlap_text, sentence) == overlap_text

\* current_chunk = overlap_text + " " + sentence
SeededBuffer(overlap_text, sentence) == overlap_text \o <<" ">> \o sentence

\* current_chunk += " " + sentence if current_chunk else sentence
AppendedBuffer(buffer, sentence) ==
    IF buffer # <<>> THEN buffer \o <<" ">> \o sentence ELSE sentence

NoBuffer == [seed |-> <<>>, sents |-> <<>>, seeded |-> FALSE]

Texts ==
    {JoinSp(ss) : ss \in UNION {[1..n -> SentencePool] : n \in 1..MaxSentences}}
        \cup {<<>>, <<" ", " ">>}

\* Three sentences of ten tokens each, chunked with chunk_size 25 and
\* chunk_overlap 5.
TenTokenSentences ==
    << <<"a", " ", "b", " ", "a", " ", "b", " ", "a", " ", "b", " ", "a", " ",
         "b", " ", "a", ".">>,
       <<"b", " ", "a", " ", "b", " ", "a", " ", "b", " ", "a", " ", "b", " ",
         "a", " ", "b", ".">>,
       <<"a", " ", "a", " ", "b", " ", "b", " ", "a", " ", "a", " ", "b", " ",
         "b", " ", "a", ".">> >>

Scenario ==
    [chunk_size |-> 25, chunk_overlap |-> 5, text |-> JoinSp(TenTokenSentences)]

InitChunk ==
    /\ \/ /\ chunk_size \in 1..MaxChunkSize
          /\ chunk_overlap \in (-1)..MaxOverlap
          /\ text \in Texts
       \/ /\ chunk_size = Scenario.chunk_size
          /\ chunk_overlap = Scenario.chunk_overlap
          /\ text = Scenario.text
    /\ pc = "start"
    /\ sentences = <<>>
    /\ pos = 0
    /\ chunks = <<>>
    /\ current_chunk = <<>>
    /\ current_tokens = 0
    /\ added = <<>>
    /\ cur = NoBuffer

\* if not text.strip(): return []
ChunkBlank ==
    /\ pc = "start"
    /\ Strip(text) = <<>>
    /\ pc' = "done"
    /\ UNCHANGED <<fs, last, sessions, issued, resp, concVars, parse,
                   chunk_size, chunk_overlap,
                   text, sentences, pos, chunks, current_chunk, current_tokens,
                   added, cur>>

\* sentences = sent_tokenize(text)
ChunkSplit ==
    /\ pc = "start"
    /\ Strip(text) # <<>>
    /\ sentences' = sent_tokenize(text)
    /\ pc' = "loop"
    /\ UNCHANGED <<fs, last, sessions, issued, resp, concVars, parse,
                   chunk_size, chunk_overlap,
                   text, pos, chunks, current_chunk, current_tokens, added, cur>>

\* One iteration of the loop that closes the current chunk and starts the
\* next one with the overlap.
ChunkClose ==
    /\ pc = "loop"
    /\ pos < Len(sentences)
    /\ LET sentence == sentences[pos + 1]
           sentence_tokens == Len(Encode(sentence))
           overlap_text == get_overlap_text(current_chunk, chunk_overlap)
       IN /\ MustClose(current_tokens, sentence_tokens, current_chunk)
          /\ chunks' = Append(chunks, NewChunk(current_chunk, current_tokens, chunks))
          /\ current_chunk' = SeededBuffer(overlap_text, sentence)
          /\ current_tokens' = Len(Encode(SeededBuffer(overlap_text, sentence)))
          /\ added' = Append(added, cur)
          /\ cur' = [seed |-> overlap_text, sents |-> <<sentence>>, seeded |-> TRUE]
    /\ pos' = pos + 1
    /\ UNCHANGED <<fs, last, sessions, issued, resp, concVars, parse,
                   chunk_size, chunk_overlap,
                   text, pc, sentences>>

\* One iteration of the loop that adds the sentence to the current chunk.
ChunkAppend ==
    /\ pc = "loop"
    /\ pos < Len(sentences)
    /\ LET sentence == sentences[pos + 1]
           sentence_tokens == Len(Encode(sentence))
       IN /\ ~MustClose(current_tokens, sentence_tokens, current_chunk)
          /\ current_chunk' = AppendedBuffer(current_chunk, sentence)
          /\ current_tokens' = current_tokens + sentence_tokens
          /\ cur' = [cur EXCEPT !.sents = Append(@, sentence)]
    /\ pos' = pos + 1
    /\ UNCHANGED <<fs, last, sessions, issued, resp, concVars, parse,
                   chunk_size, chunk_overlap,
                   text, pc, sentences, chunks, added>>

\* The final chunk, and return chunks.
ChunkFinish ==
    /\ pc = "loop"
    /\ pos = Len(sentences)
    /\ IF Strip(current_chunk) # <<>>
       THEN /\ chunks' = Append(chunks, NewChunk(current_chunk, current_tokens, chunks))
            /\ added' = Append(added, cur)
       ELSE UNCHANGED <<chunks, added>>
    /\ pc' = "done"
    /\ UNCHANGED <<fs, last, sessions, issued, resp, concVars, parse,
                   chunk_size, chunk_overlap,
                   text, sentences, pos, current_chunk, current_tokens, cur>>

(***************************************************************************)
(* The upload route hands the list chunk_text returns to create_embeddings. *)
(* The store's model keeps a text as a number: TextNumber is the number a   *)
(* text of the chunker is kept as.                                         *)
(***************************************************************************)
CharCode(c) ==
    IF c = "a" THEN 1 ELSE IF c = "b" THEN 2 ELSE IF c = "1" THEN 3
    ELSE IF c = "." THEN 4 ELSE 5

RECURSIVE TextNumber(_)
TextNumber(t) ==
    IF t = <<>> THEN 0
    ELSE (TextNumber(SubSeq(t, 1, Len(t) - 1)) * 7 + CharCode(t[Len(t)])) % 1009

\* The chunks of chunk_text as the store holds them.
StoreChunks(cl) == [i \in 1..Len(cl) |-> [cl[i] EXCEPT !.text = TextNumber(@)]]

\* chunks = document_parser.chunk_text(extracted_text);
\* success = vector_store.create_embeddings(chunks, session_id)
EmbedChunks(ids, wfaults) ==
    /\ pc = "done"
    /\ \E s \in ids, wf \in wfaults :
       \E fb \in 0..NumBatches(Len(chunks)) :
          /\ (chunks = <<>> \/ fb > 0) => wf = "none"
          /\ LET r == create_embeddings(fs[session_folder(s)], StoreChunks(chunks),
                                        s, fb, wf)
             IN /\ fs' = [fs EXCEPT ![session_folder(s)] = r.st]
                /\ last' = [NoCall EXCEPT !.op = "create_embeddings", !.sid = s,
                                          !.ret = r.ret, !.calls = r.calls,
                                          !.chunks = StoreChunks(chunks),
                                          !.batches = r.batches,
                                          !.fault = IF fb > 0 THEN "embed" ELSE wf]
    /\ pc' = "embedded"
    /\ UNCHANGED <<appVars, concVars, parse, chunk_size, chunk_overlap, text,
                   sentences, pos, chunks, current_chunk, current_tokens,
                   added, cur>>

(***************************************************************************)
(* Concurrent callers.  Flask serves requests on threads, so calls of the  *)
(* VectorStore can run at once.  Each caller makes one call on the session *)
(* ConcSession; a step is one access to the file system (or the in-memory  *)
(* work between two accesses).  The write and the read of one file are     *)
(* taken to be atomic, and no call fails.                                  *)
(*                                                                         *)
(* A caller's record holds the locals of its call: for create_embeddings   *)
(* the argument chunks and the index built in memory, for                  *)
(* similarity_search the arguments query and k, the index and the          *)
(* chunks_metadata it has loaded, and the list it returns.                 *)
(***************************************************************************)
ProcIds == {"p1", "p2"}

ConcSession == "s1"

ProcTag(p) == IF p = "p1" THEN 10 ELSE 20

\* The chunk lists caller p hands to create_embeddings.
BuildLists(p) == {TaggedChunks(ProcTag(p), n) : n \in 1..(MaxChunks - 1)}

IdleProc ==
    [op |-> "none", pc |-> "idle", chunks |-> <<>>, index |-> <<>>,
     query |-> 0, k |-> 0, ret |-> "", results |-> <<>>]

\* _save_index: the order of its accesses to the file system
SaveOrder == <<"makedirs", "write_index", "write_meta", "write_info">>

\* The step of _save_index that follows step pc ("done" after the last).
AfterSave(step) ==
    LET i == CHOOSE j \in 1..Len(SaveOrder) : SaveOrder[j] = step
    IN IF i = Len(SaveOrder) THEN "done" ELSE SaveOrder[i + 1]

\* Mutant: the chunk metadata is saved together with the index.
write_step_meta_with_index(st, step, sid, index, chunks_metadata) ==
    IF step = "makedirs" THEN [st EXCEPT !.dir = TRUE]
    ELSE IF step = "write_index"
    THEN [st EXCEPT !.index = File(index), !.meta = File(chunks_metadata)]
    ELSE IF step = "write_meta" THEN [st EXCEPT !.meta = File(chunks_metadata)]
    ELSE [st EXCEPT !.info = File(SessionInfo(sid, chunks_metadata))]

\* Mutant: the chunk metadata is written only when there is none yet.
write_step_keep_meta(st, step, sid, index, chunks_metadata) ==
    IF step = "makedirs" THEN [st EXCEPT !.dir = TRUE]
    ELSE IF step = "write_index" THEN [st EXCEPT !.index = File(index)]
    ELSE IF step = "write_meta"
    THEN IF Exists(st.meta) THEN st ELSE [st EXCEPT !.meta = File(chunks_metadata)]
    ELSE [st EXCEPT !.info = File(SessionInfo(sid, chunks_metadata))]

\* One access of _save_index to the file system.
write_step(st, step, sid, index, chunks_metadata) ==
    IF step = "makedirs" THEN [st EXCEPT !.dir = TRUE]
    ELSE IF step = "write_index" THEN [st EXCEPT !.index = File(index)]
    ELSE IF step = "write_meta" THEN [st EXCEPT !.meta = File(chunks_metadata)]
    ELSE [st EXCEPT !.info = File(SessionInfo(sid, chunks_metadata))]

\* Mutant: the locals of a call are kept on the shared VectorStore object,
\* where the call that started first finds them.
Locals_shared(ps, p) == ps["p1"]

\* index, chunks_metadata and the query are local variables of the call.
Locals(ps, p) == ps[p]

InProgress(pr) == pr.pc \notin {"idle", "done"}

\* create_embeddings(chunks, ConcSession) is called.
ConcBeginCreate(p) ==
    /\ procs[p].pc = "idle"
    /\ \E cl \in BuildLists(p) :
          procs' = [procs EXCEPT ![p] = [IdleProc EXCEPT !.op = "create_embeddings",
                                                       !.pc = "embed",
                                                       !.chunks = cl]]
    /\ builds_overlapped' =
          (builds_overlapped
             \/ \E q \in ProcIds \ {p} :
                   procs[q].op = "create_embeddings" /\ InProgress(procs[q]))
    /\ UNCHANGED <<fs, last, appVars, chunkVars, parse>>

\* The embedding calls and the index built in memory (lines 33-67).
ConcEmbed(p) ==
    /\ procs[p].op = "create_embeddings" /\ procs[p].pc = "embed"
    /\ LET texts == [i \in 1..Len(procs[p].chunks) |-> procs[p].chunks[i].text]
       IN procs' = [procs EXCEPT ![p].index = BuildIndex(EmbedAll(texts, 0)),
                                 ![p].pc = SaveOrder[1]]
    /\ UNCHANGED <<fs, last, builds_overlapped, appVars, chunkVars, parse>>

\* One step of _save_index; after the last one create_embeddings returns True.
ConcSaveStep(p) ==
    /\ procs[p].op = "create_embeddings"
    /\ \E i \in 1..Len(SaveOrder) : SaveOrder[i] = procs[p].pc
    /\ fs' = [fs EXCEPT ![session_folder(ConcSession)] =
                 write_step(@, procs[p].pc, ConcSession,
                            procs[p].index, procs[p].chunks)]
    /\ procs' = [procs EXCEPT ![p].pc = AfterSave(procs[p].pc),
                              ![p].ret = IF AfterSave(procs[p].pc) = "done"
                                         THEN "True" ELSE ""]
    /\ UNCHANGED <<last, builds_overlapped, appVars, chunkVars, parse>>

\* similarity_search(query, ConcSession, k) is called.
ConcBeginSearch(p, queries, ks) ==
    /\ procs[p].pc = "idle"
    /\ \E q \in queries, k \in ks :
          procs' = [procs EXCEPT ![p] = [IdleProc EXCEPT !.op = "similarity_search",
                                                       !.pc = "load_index",
                                                       !.query = q, !.k = k]]
    /\ UNCHANGED <<fs, last, builds_overlapped, appVars, chunkVars, parse>>

\* _load_index up to faiss.read_index: (None, None), and with it the empty
\* list, when the directory or the index file is missing.
ConcLoadIndex(p) ==
    /\ procs[p].op = "similarity_search" /\ procs[p].pc = "load_index"
    /\ LET st == fs[session_folder(ConcSession)]
       IN IF ~st.dir \/ ~Exists(st.index)
          THEN procs' = [procs EXCEPT ![p].pc = "done", ![p].ret = "list",
                                      ![p].results = <<>>]
          ELSE procs' = [procs EXCEPT ![p].pc = "load_meta",
                                      ![p].index = Content(st.index)]
    /\ UNCHANGED <<fs, last, builds_overlapped, appVars, chunkVars, parse>>

\* _load_index from the test of metadata_path on.
ConcLoadMeta(p) ==
    /\ procs[p].op = "similarity_search" /\ procs[p].pc = "load_meta"
    /\ LET st == fs[session_folder(ConcSession)]
       IN IF ~Exists(st.meta)
          THEN procs' = [procs EXCEPT ![p].pc = "done", ![p].ret = "list",
                                      ![p].results = <<>>]
          ELSE procs' = [procs EXCEPT ![p].pc = "search",
                                      ![p].chunks = Content(st.meta)]
    /\ UNCHANGED <<fs, last, builds_overlapped, appVars, chunkVars, parse>>

\* The query embedding, index.search and the result list (lines 89-114).
ConcSearch(p) ==
    /\ procs[p].op = "similarity_search" /\ procs[p].pc = "search"
    /\ LET mine == Locals(procs, p)
           q == NormalizeL2(Embed(mine.query))
       IN procs' = [procs EXCEPT
                       ![p].pc = "done", ![p].ret = "list",
                       ![p].results =
                           PrepareResults(index_search(mine.index, q, mine.k),
                                          mine.chunks)]
    /\ UNCHANGED <<fs, last, builds_overlapped, appVars, chunkVars, parse>>

(***************************************************************************)
(* DocumentParser.parse_document and its extraction strategies.            *)
(*                                                                         *)
(* A declared type is a sequence of characters.  A file is described by    *)
(* what the libraries make of it: whether pdfplumber and PyMuPDF open it   *)
(* and, per page, the text each extracts (or that the page raises) and the *)
(* text OCR reads from it (or that OCR fails); whether python-docx opens   *)
(* it and its paragraphs; and, per encoding, whether the bytes decode and  *)
(* to which text.  Latin-1 and ISO-8859-1 decode every byte sequence.      *)
(*                                                                         *)
(* The texts name their origin: "a" is extracted by pdfplumber, "m" by     *)
(* PyMuPDF, "o" read by OCR, "d" a docx paragraph, "u", "l", "c", "i" the  *)
(* decodings of a text file.                                               *)
(***************************************************************************)
MaxPages == 2               \* SpecParse: pages of a PDF file
DefaultOcrThreshold == 50   \* DocumentParser: ocr_threshold = 50

Whitespace == {" ", "\n"}

\* str.strip() on texts with line breaks
RECURSIVE LStripWs(_)
LStripWs(t) == IF t # <<>> /\ Head(t) \in Whitespace THEN LStripWs(Tail(t)) ELSE t

RECURSIVE RStripWs(_)
RStripWs(t) ==
    IF t # <<>> /\ t[Len(t)] \in Whitespace
    THEN RStripWs(SubSeq(t, 1, Len(t) - 1)) ELSE t

StripWs(t) == RStripWs(LStripWs(t))

\* str.lower() on the letters that occur in the declared types
ToLower ==
    [P |-> "p", D |-> "d", F |-> "f", O |-> "o", C |-> "c", X |-> "x", T |-> "t"]

Lower(t) == [i \in 1..Len(t) |-> IF t[i] \in DOMAIN ToLower THEN ToLower[t[i]] ELSE t[i]]

FileTypes ==
    { <<"p", "d", "f">>, <<"P", "D", "F">>, <<"P", "d", "f">>,
      <<"d", "o", "c", "x">>, <<"D", "O", "C", "X">>,
      <<"d", "o", "c">>, <<"D", "o", "c">>,
      <<"t", "x", "t">>, <<"T", "X", "T">>,
      <<"p", "d", "f", "x">>, <<"t", "x">>, <<"o", "d", "t">>, <<>> }

Got(t) == [ok |-> TRUE, text |-> t]

Raises == [ok |-> FALSE, text |-> <<>>]

\* What the libraries make of one page.  extract_text() returning None is
\* the empty text here, as "page.extract_text() or ''" makes it.
PageKinds ==
    { [plumber |-> Got(<<"a", "a", "a">>), mupdf |-> Got(<<"m", "m", "m">>),
       ocr |-> Got(<<"o", "o", "o">>)],
      [plumber |-> Got(<<" ", "a", " ">>), mupdf |-> Got(<<"m", "\n">>),
       ocr |-> Got(<<"o", "o">>)],
      [plumber |-> Got(<<>>), mupdf |-> Got(<<>>), ocr |-> Raises],
      [plumber |-> Raises, mupdf |-> Got(<<"m", "m">>), ocr |-> Got(<<"o">>)],
      [plumber |-> Got(<<"a", "a">>), mupdf |-> Raises, ocr |-> Got(<<"o">>)] }

NoDecodes ==
    [utf8 |-> Raises, latin1 |-> Got(<<"l">>), cp1252 |-> Raises,
     iso8859 |-> Got(<<"i">>)]

NotAFile ==
    [plumber_ok |-> FALSE, plumber_close_ok |-> TRUE, mupdf_ok |-> FALSE,
     pages |-> <<>>,
     docx_ok |-> FALSE, paragraphs |-> <<>>, decodes |-> NoDecodes]

\* pdfplumber fails on the document when it opens it (plumber_ok false) or,
\* the pages done, when it closes it (plumber_close_ok false).
PdfFilesOf(pagesets) ==
    {[NotAFile EXCEPT !.plumber_ok = po[1], !.plumber_close_ok = po[2],
                      !.mupdf_ok = mo, !.pages = pg] :
        po \in {<<TRUE, TRUE>>, <<TRUE, FALSE>>, <<FALSE, TRUE>>},
        mo \in BOOLEAN, pg \in pagesets}

PdfFiles == PdfFilesOf(UNION {[1..n -> PageKinds] : n \in 0..MaxPages})

\* A text of n characters c.
Rep(c, n) == [i \in 1..n |-> c]

\* A page with n characters of text for either library; OCR reads "oo".
PageOf(n) ==
    [plumber |-> Got(Rep("a", n)), mupdf |-> Got(Rep("m", n)),
     ocr |-> Got(<<"o", "o">>)]

\* Documents of three pages, one of them with 10 characters of text, the
\* others with 50 and 60, parsed with the default threshold.
ScenarioPdfs ==
    PdfFilesOf({<<PageOf(10), PageOf(50), PageOf(60)>>,
                <<PageOf(60), PageOf(10), PageOf(50)>>})

DocxFiles ==
    {[NotAFile EXCEPT !.docx_ok = TRUE, !.paragraphs = ps] :
        ps \in { <<>>, << <<"d">> >>,
                 << <<"d">>, <<" ">>, <<"d", "d">> >> }}

TxtFiles ==
    {[NotAFile EXCEPT !.decodes = [utf8 |-> u, latin1 |-> Got(<<"l">>),
                                   cp1252 |-> c, iso8859 |-> Got(<<"i">>)]] :
        u \in {Raises, Got(<<"u", ".">>), Got(<<>>)},
        c \in {Raises, Got(<<"c">>)}}

Files == PdfFiles \cup DocxFiles \cup TxtFiles

OcrThresholds == {0, 2}

Call(fn, arg) == [fn |-> fn, arg |-> arg]

Returned(t, calls) == [kind |-> "text", text |-> t, calls |-> calls]

Raised(kind, calls) == [kind |-> kind, text |-> <<>>, calls |-> calls]

\* Mutant: when OCR fails the page gets a text that tells so.
ocr_pdf_page_error_text(file, n) ==
    IF file.pages[n].ocr.ok THEN file.pages[n].ocr.text ELSE <<"?">>

\* _ocr_pdf_page(file_path, page_num): the text OCR reads, "" when it fails
ocr_pdf_page(file, n) ==
    IF file.pages[n].ocr.ok THEN file.pages[n].ocr.text ELSE <<>>

\* Mutant: a page is also read by OCR when its text has just ocr_threshold
\* characters.
page_text_at_threshold(file, lib, n, threshold) ==
    LET got == file.pages[n][lib] IN
    IF ~got.ok THEN [text |-> <<>>, calls |-> <<>>]
    ELSE IF Len(StripWs(got.text)) <= threshold
    THEN [text |-> IF file.pages[n].ocr.ok
                   THEN file.pages[n].ocr.text \o <<"\n">> ELSE <<"\n">>,
          calls |-> <<Call("_ocr_pdf_page", n)>>]
    ELSE [text |-> got.text \o <<"\n">>, calls |-> <<>>]

\* The body of the loop over the pages, for page n as library lib ("plumber"
\* or "mupdf") extracts it: what the page adds to full_text and the calls of
\* _ocr_pdf_page it makes.  A page that raises is skipped.
page_text(file, lib, n, threshold) ==
    LET got == file.pages[n][lib] IN
    IF ~got.ok THEN [text |-> <<>>, calls |-> <<>>]
    ELSE IF Len(StripWs(got.text)) < threshold
    THEN [text |-> ocr_pdf_page(file, n) \o <<"\n">>,
          calls |-> <<Call("_ocr_pdf_page", n)>>]
    ELSE [text |-> got.text \o <<"\n">>, calls |-> <<>>]

\* The loop over the pages from page n on.
RECURSIVE pages_text(_, _, _, _)
pages_text(file, lib, n, threshold) ==
    IF n > Len(file.pages) THEN [text |-> <<>>, calls |-> <<>>]
    ELSE LET here == page_text(file, lib, n, threshold)
             rest == pages_text(file, lib, n + 1, threshold)
         IN [text |-> here.text \o rest.text, calls |-> here.calls \o rest.calls]

\* _parse_pdf_pymupdf
parse_pdf_pymupdf(file, threshold) ==
    IF ~file.mupdf_ok THEN Raised("LibraryError", <<Call("fitz.open", 0)>>)
    ELSE LET all == pages_text(file, "mupdf", 1, threshold)
         IN Returned(StripWs(all.text), <<Call("fitz.open", 0)>> \o all.calls)

\* Mutant: the text pdfplumber gathered before it failed is kept in front of
\* the text of the fallback.
parse_pdf_keeps_primary(file, threshold) ==
    LET all == pages_text(file, "plumber", 1, threshold)
        primary == <<Call("pdfplumber.open", 0)>>
                       \o (IF file.plumber_ok THEN all.calls ELSE <<>>)
    IN IF file.plumber_ok /\ file.plumber_close_ok
       THEN Returned(StripWs(all.text), primary)
       ELSE LET alt == parse_pdf_pymupdf(file, threshold)
                calls == primary \o <<Call("_parse_pdf_pymupdf", 0)>> \o alt.calls
                kept == IF file.plumber_ok THEN all.text ELSE <<>>
            IN IF alt.kind = "text"
               THEN Returned(StripWs(kept \o alt.text), calls)
               ELSE Raised(alt.kind, calls)

\* _parse_pdf: pdfplumber first; when it fails on the document, at whatever
\* point, full_text is replaced by what _parse_pdf_pymupdf returns.
parse_pdf(file, threshold) ==
    LET all == pages_text(file, "plumber", 1, threshold)
        primary == <<Call("pdfplumber.open", 0)>>
                       \o (IF file.plumber_ok THEN all.calls ELSE <<>>)
    IN IF file.plumber_ok /\ file.plumber_close_ok
       THEN Returned(StripWs(all.text), primary)
       ELSE LET alt == parse_pdf_pymupdf(file, threshold)
                calls == primary \o <<Call("_parse_pdf_pymupdf", 0)>> \o alt.calls
            IN IF alt.kind = "text" THEN Returned(StripWs(alt.text), calls)
               ELSE Raised(alt.kind, calls)

\* "\n".join(full_text)
RECURSIVE JoinLines(_)
JoinLines(ls) ==
    IF ls = <<>> THEN <<>>
    ELSE IF Len(ls) = 1 THEN ls[1]
    ELSE ls[1] \o <<"\n">> \o JoinLines(Tail(ls))

\* _parse_docx: the paragraphs that are not blank, one per line
parse_docx(file) ==
    IF ~file.docx_ok THEN Raised("LibraryError", <<Call("Document", 0)>>)
    ELSE LET NotBlank(para) == StripWs(para) # <<>>
         IN Returned(JoinLines(SelectSeq(file.paragraphs, NotBlank)),
                     <<Call("Document", 0)>>)

\* encodings = ['utf-8', 'latin-1', 'cp1252', 'iso-8859-1']
Encodings == <<"utf8", "latin1", "cp1252", "iso8859">>

\* _parse_txt: the loop over the encodings from the n-th on
RECURSIVE parse_txt_from(_, _)
parse_txt_from(file, n) ==
    IF n > Len(Encodings) THEN Raised("Undecodable", <<>>)
    ELSE LET got == file.decodes[Encodings[n]]
             here == <<Call("open", n)>>
         IN IF got.ok THEN Returned(got.text, here)
            ELSE LET rest == parse_txt_from(file, n + 1)
                 IN [rest EXCEPT !.calls = here \o rest.calls]

\* Mutant: every encoding is tried and the last that decodes wins.
parse_txt_last_wins(file) ==
    LET oks == {n \in 1..Len(Encodings) : file.decodes[Encodings[n]].ok}
        calls == [n \in 1..Len(Encodings) |-> Call("open", n)]
    IN IF oks = {} THEN Raised("Undecodable", calls)
       ELSE Returned(file.decodes[Encodings[CHOOSE n \in oks :
                                      \A o \in oks : o <= n]].text, calls)

parse_txt(file) == parse_txt_from(file, 1)

\* Mutant: the declared type is compared as it is written.
parse_document_case_sensitive(file, file_type, threshold) ==
    IF file_type = <<"p", "d", "f">>
    THEN LET r == parse_pdf(file, threshold)
         IN [r EXCEPT !.calls = <<Call("_parse_pdf", 0)>> \o r.calls]
    ELSE IF file_type \in {<<"d", "o", "c", "x">>, <<"d", "o", "c">>}
    THEN LET r == parse_docx(file)
         IN [r EXCEPT !.calls = <<Call("_parse_docx", 0)>> \o r.calls]
    ELSE IF file_type = <<"t", "x", "t">>
    THEN LET r == parse_txt(file)
         IN [r EXCEPT !.calls = <<Call("_parse_txt", 0)>> \o r.calls]
    ELSE Raised("UnsupportedFormat", <<>>)

\* parse_document(file_path, file_type); every error is raised again.
parse_document(file, file_type, threshold) ==
    IF Lower(file_type) = <<"p", "d", "f">>
    THEN LET r == parse_pdf(file, threshold)
         IN [r EXCEPT !.calls = <<Call("_parse_pdf", 0)>> \o r.calls]
    ELSE IF Lower(file_type) \in {<<"d", "o", "c", "x">>, <<"d", "o", "c">>}
    THEN LET r == parse_docx(file)
         IN [r EXCEPT !.calls = <<Call("_parse_docx", 0)>> \o r.calls]
    ELSE IF Lower(file_type) = <<"t", "x", "t">>
    THEN LET r == parse_txt(file)
         IN [r EXCEPT !.calls = <<Call("_parse_txt", 0)>> \o r.calls]
    ELSE Raised("UnsupportedFormat", <<>>)

NoParse ==
    [pc |-> "idle", file |-> NotAFile, file_type |-> <<>>,
     ocr_threshold |-> DefaultOcrThreshold,
     kind |-> "", text |-> <<>>, calls |-> <<>>]

InitParse ==
    parse \in {[NoParse EXCEPT !.pc = "start", !.file = f, !.file_type = ft,
                               !.ocr_threshold = th] :
                  f \in Files, ft \in FileTypes, th \in OcrThresholds}
             \cup {[NoParse EXCEPT !.pc = "start", !.file = f,
                                   !.file_type = <<"p", "d", "f">>] :
                      f \in ScenarioPdfs}

\* parse_document is called and returns or raises.
ParseDocument ==
    /\ parse.pc = "start"
    /\ LET r == parse_document(parse.file, parse.file_type, parse.ocr_threshold)
       IN parse' = [parse EXCEPT !.pc = "done", !.kind = r.kind,
                                 !.text = r.text, !.calls = r.calls]
    /\ UNCHANGED <<fs, last, appVars, chunkVars, concVars>>

(***************************************************************************)
(* The parts of the state a specification leaves alone.                    *)
(***************************************************************************)
DefaultChunkSize == 800
DefaultChunkOverlap == 100

InitAppIdle ==
    /\ sessions = [s \in {} |-> 0]
    /\ issued = {}
    /\ resp = [route |-> "none", status |-> 0, sid |-> "", chunks |-> 0]

InitChunkIdle ==
    /\ chunk_size = DefaultChunkSize
    /\ chunk_overlap = DefaultChunkOverlap
    /\ text = <<>>
    /\ pc = "idle"
    /\ sentences = <<>>
    /\ pos = 0
    /\ chunks = <<>>
    /\ current_chunk = <<>>
    /\ current_tokens = 0
    /\ added = <<>>
    /\ cur = NoBuffer

InitConcIdle ==
    /\ procs = [p \in ProcIds |-> IdleProc]
    /\ builds_overlapped = FALSE

InitParseIdle == parse = NoParse

InitIdle == InitAppIdle /\ InitChunkIdle /\ InitConcIdle /\ InitParseIdle

(***************************************************************************)
(* Spec: the VectorStore API on two sessions, every write and read liable  *)
(* to fail, on chunk lists of 0, 1 and MaxChunks chunks.                   *)
(***************************************************************************)
Init == InitStore /\ InitIdle

Next ==
    \/ CreateEmbeddings(SessionIds, FewChunkLists, WriteFaults)
    \/ SimilaritySearch({101}, {1, DefaultK}, SearchFaults)
    \/ SessionExists
    \/ DeleteSession(SessionIds)

Spec == Init /\ [][Next]_vars

(***************************************************************************)
(* SpecSearch: searches with every query and limit over sessions built     *)
(* from 1..MaxChunks chunks; no write fails.                               *)
(***************************************************************************)
NextSearch ==
    \/ CreateEmbeddings(SessionIds, SmallChunkLists, {"none"})
    \/ SimilaritySearch(Queries, KValues, SearchFaults)
    \/ DeleteSession(SessionIds)

SpecSearch == Init /\ [][NextSearch]_vars

(***************************************************************************)
(* SpecBatch: builds of one, two and three embedding batches on one        *)
(* session, any embedding call and the write of the chunk metadata liable  *)
(* to fail.                                                                *)
(***************************************************************************)
NextBatch ==
    \/ CreateEmbeddings({"s1"}, BatchChunkLists, {"none", "write_meta"})
    \/ SessionExists
    \/ DeleteSession({"s1"})

SpecBatch == Init /\ [][NextBatch]_vars

(***************************************************************************)
(* SessionManager.  A session record keeps the owner, whether the uploaded *)
(* file still lies at file_path, and the length of chat_history; the       *)
(* names and time stamps of the record are left out.                       *)
(***************************************************************************)
MaxChats == 1       \* SpecApp: chat requests served per session

create_session(recs, sid, user) ==
    [t \in DOMAIN recs \cup {sid} |->
        IF t = sid THEN [user_id |-> user, file |-> TRUE, chat_history |-> 0]
        ELSE recs[t]]

user_owns_session(recs, sid, user) ==
    sid \in DOMAIN recs /\ recs[sid].user_id = user

\* The uploaded file is removed with the record; nothing else is.
session_manager_delete_session(recs, sid) ==
    IF sid \in DOMAIN recs
    THEN [ret |-> TRUE, recs |-> [t \in DOMAIN recs \ {sid} |-> recs[t]]]
    ELSE [ret |-> FALSE, recs |-> recs]

\* add_chat_message, called for the user's and for the assistant's message
add_chat_messages(recs, sid) ==
    [recs EXCEPT ![sid].chat_history = @ + 2]

(***************************************************************************)
(* The routes of app2.py.  resp is the response: the route, the HTTP       *)
(* status, the session id it carries or was asked about, and for /chat the *)
(* number of chunks retrieved.                                             *)
(***************************************************************************)
UploadFaults ==
    {"none", "parse", "chunk", "embed", "write_index", "write_meta", "write_info"}

Response(route, status, sid, n) ==
    [route |-> route, status |-> status, sid |-> sid, chunks |-> n]

\* Mutant: the route answers with success whatever happened.
upload_response_always_success(raised, sid) == Response("upload", 200, sid, 0)

\* The route's handler turns every exception into a 500 response; without
\* one the response carries the session id.
upload_response(raised, sid) ==
    IF raised THEN Response("upload", 500, "", 0)
    ELSE Response("upload", 200, sid, 0)

\* POST /upload with a request that is refused before a session is created.
UploadRefused ==
    /\ resp' = Response("upload", 400, "", 0)
    /\ last' = NoCall
    /\ UNCHANGED <<sessions, issued, fs, chunkVars, concVars, parse>>

\* POST /upload with an accepted file: create_session, parse_document,
\* chunk_text (cl is its result), create_embeddings, removal of the file.
\* sid is the fresh uuid of create_session.  With fault "parse"
\* get_file_info or parse_document raises, with fault "chunk" chunk_text.
Upload ==
    \E user \in Users, sid \in SessionIds \ issued,
       cl \in FewChunkLists, f \in UploadFaults :
        /\ issued' = issued \cup {sid}
        /\ IF f \in {"parse", "chunk"}
           THEN /\ sessions' = create_session(sessions, sid, user)
                /\ resp' = upload_response(TRUE, sid)
                /\ last' = [NoCall EXCEPT !.op = IF f = "parse"
                                                 THEN "parse_document"
                                                 ELSE "chunk_text",
                                          !.sid = sid, !.ret = "raise",
                                          !.fault = f]
                /\ UNCHANGED fs
           ELSE LET r == create_embeddings(fs[session_folder(sid)], cl, sid,
                                           IF f = "embed" THEN 1 ELSE 0,
                                           IF f = "embed" THEN "none" ELSE f)
                IN /\ (cl = <<>>) => f = "none"
                   /\ fs' = [fs EXCEPT ![session_folder(sid)] = r.st]
                   /\ last' = [NoCall EXCEPT !.op = "create_embeddings",
                                             !.sid = sid, !.ret = r.ret,
                                             !.calls = r.calls, !.chunks = cl,
                                             !.batches = r.batches,
                                             !.fault = f]
                   /\ resp' = upload_response(r.ret = "raise", sid)
                   /\ IF r.ret = "raise"
                      THEN sessions' = create_session(sessions, sid, user)
                      ELSE sessions' = [create_session(sessions, sid, user)
                                          EXCEPT ![sid].file = FALSE]
        /\ UNCHANGED <<chunkVars, concVars, parse>>

\* POST /chat
Chat ==
    \E user \in Users, sid \in SessionIds, q \in {101}, f \in SearchFaults :
        IF ~user_owns_session(sessions, sid, user)
        THEN /\ resp' = Response("chat", 404, sid, 0)
             /\ last' = NoCall
             /\ UNCHANGED <<sessions, issued, fs, chunkVars, concVars, parse>>
        ELSE /\ sessions[sid].chat_history < 2 * MaxChats
             /\ LET r == similarity_search(fs[session_folder(sid)], q,
                                           DefaultK, f)
                IN /\ last' = [NoCall EXCEPT !.op = "similarity_search",
                                             !.sid = sid, !.ret = "list",
                                             !.results = r.results,
                                             !.calls = r.calls, !.k = DefaultK,
                                             !.query = q, !.fault = f]
                   /\ resp' = Response("chat", 200, sid, Len(r.results))
             /\ sessions' = add_chat_messages(sessions, sid)
             /\ UNCHANGED <<fs, issued, chunkVars, concVars, parse>>

\* DELETE /api/sessions/<session_id>
AppDeleteSession ==
    \E user \in Users, sid \in SessionIds :
        IF ~user_owns_session(sessions, sid, user)
        THEN /\ resp' = Response("delete_session", 404, sid, 0)
             /\ last' = NoCall
             /\ UNCHANGED <<sessions, issued, fs, chunkVars, concVars, parse>>
        ELSE LET r == session_manager_delete_session(sessions, sid)
             IN /\ sessions' = r.recs
                /\ resp' = Response("delete_session",
                                    IF r.ret THEN 200 ELSE 500, sid, 0)
                /\ last' = NoCall
                /\ UNCHANGED <<issued, fs, chunkVars, concVars, parse>>

NextApp ==
    \/ UploadRefused
    \/ Upload
    \/ Chat
    \/ AppDeleteSession

SpecApp == Init /\ [][NextApp]_vars

(***************************************************************************)
(* SpecChunk: chunk_text on every text of up to MaxSentences sentences,    *)
(* under every configuration of chunk_size and chunk_overlap in range.     *)
(***************************************************************************)
NextChunk ==
    \/ ChunkBlank
    \/ ChunkSplit
    \/ ChunkClose
    \/ ChunkAppend
    \/ ChunkFinish

InitChunkText ==
    InitStore /\ InitAppIdle /\ InitChunk /\ InitConcIdle /\ InitParseIdle

SpecChunk == InitChunkText /\ [][NextChunk]_vars

(***************************************************************************)
(* SpecPipeline: chunk_text with chunk_overlap 0, 1 and 5, then            *)
(* create_embeddings on the chunks it returned, and searches.              *)
(***************************************************************************)
InitPipeline ==
    /\ InitChunkText
    /\ chunk_overlap \in {0, 1, Scenario.chunk_overlap}

NextPipeline ==
    \/ NextChunk
    \/ EmbedChunks({"s1"}, {"none", "write_meta"})
    \/ SimilaritySearch({101}, {DefaultK}, {"none"})

SpecPipeline == InitPipeline /\ [][NextPipeline]_vars

(***************************************************************************)
(* SpecScope: the VectorStore API on two sessions, each session built from *)
(* chunk lists of its own, the write of the chunk metadata liable to fail. *)
(***************************************************************************)
NextScope ==
    \/ \E s \in SessionIds :
          CreateEmbeddings({s}, SessionChunkLists(s), {"none", "write_meta"})
    \/ SimilaritySearch({101}, {1, DefaultK}, {"none"})
    \/ DeleteSession(SessionIds)

SpecScope == Init /\ [][NextScope]_vars

(***************************************************************************)
(* SpecConc: two callers at once on one session that has nothing           *)
(* persisted, each building or searching, step by step.                    *)
(***************************************************************************)
NextConc ==
    \E p \in ProcIds :
        \/ ConcBeginCreate(p)
        \/ ConcEmbed(p)
        \/ ConcSaveStep(p)
        \/ ConcBeginSearch(p, {101}, {DefaultK})
        \/ ConcLoadIndex(p)
        \/ ConcLoadMeta(p)
        \/ ConcSearch(p)

SpecConc == Init /\ [][NextConc]_vars

(***************************************************************************)
(* SpecQueries: two searches at once, step by step, on a session built     *)
(* from 1..MaxChunks chunks; nothing builds or deletes.                    *)
(***************************************************************************)
InitQueries ==
    /\ \E cl \in SmallChunkLists \ {<<>>} :
          fs = [s \in SessionIds |->
                   IF s = ConcSession
                   THEN create_embeddings(NoDir, cl, s, 0, "none").st
                   ELSE NoDir]
    /\ last = NoCall
    /\ InitIdle

NextQueries ==
    \E p \in ProcIds :
        \/ ConcBeginSearch(p, Queries, KValues)
        \/ ConcLoadIndex(p)
        \/ ConcLoadMeta(p)
        \/ ConcSearch(p)

SpecQueries == InitQueries /\ [][NextQueries]_vars

(***************************************************************************)
(* SpecParse: parse_document on every file and declared type in range.     *)
(***************************************************************************)
InitParseReady ==
    InitStore /\ InitAppIdle /\ InitChunkIdle /\ InitConcIdle /\ InitParse

NextParse == ParseDocument

SpecParse == InitParseReady /\ [][NextParse]_vars

(***************************************************************************)
(* Properties of the vector store.                                         *)
(***************************************************************************)
\* The index file and the chunk metadata of a session are both persisted.
Persisted(st) == st.dir /\ Exists(st.index) /\ Exists(st.meta)

\* The three artifacts of a session come from one build of n chunks.
BuiltFrom(st, sid, n) ==
    /\ Persisted(st) /\ Exists(st.info)
    /\ Len(Content(st.index)) = n
    /\ Len(Content(st.meta)) = n
    /\ Content(st.info) = [session_id |-> sid, num_chunks |-> n]

\* C1: a create_embeddings call in which an embedding call fails, whichever
\* batch it is, raises (it returns neither True nor False) and leaves the
\* directory, the index file, the chunk metadata and the descriptor of every
\* session exactly as they were before the call.
C1_EmbeddingFailureIsAllOrNothing ==
    [][(last'.op = "create_embeddings" /\ last'.fault = "embed")
          => (last'.ret = "raise" /\ fs' = fs)]_vars

\* C1 witness: the second of three embedding calls failed in a rebuild of a
\* session that has a persisted index.
C1_Witness ==
    /\ last.op = "create_embeddings" /\ last.fault = "embed"
    /\ NumBatches(Len(last.chunks)) = 3 /\ last.calls = 2
    /\ Persisted(fs[last.sid])

\* C4: a search on a session whose directory, index file or chunk metadata
\* is missing returns the empty list, raises nothing, makes no embedding
\* call and leaves the storage as it was.
C4_SearchWithoutIndexIsEmpty ==
    [][(last'.op = "similarity_search" /\ ~Persisted(fs[last'.sid]))
          => /\ last'.ret = "list" /\ last'.results = <<>>
             /\ last'.calls = 0
             /\ fs' = fs]_vars

\* C4 witness: a search, with no fault, on a session that has its index file
\* and no chunk metadata.
C4_Witness ==
    /\ last.op = "similarity_search" /\ last.fault = "none"
    /\ fs[last.sid].dir /\ Exists(fs[last.sid].index)
    /\ ~Exists(fs[last.sid].meta)

\* Some position the index returns for (query, k) has no chunk metadata.
PositionWithoutEntry(st, query, k) ==
    /\ Persisted(st)
    /\ \E h \in {index_search(Content(st.index), NormalizeL2(Embed(query)), k)} :
          \E j \in 1..Len(h) : h[j].idx # -1 /\ h[j].idx >= Len(Content(st.meta))

\* C5: similarity_search always returns a list and leaves the storage as it
\* was; when the query embedding call fails, a read of the persisted files
\* fails, or a returned position has no entry in the chunk metadata, the list
\* is empty.
C5_SearchNeverRaises ==
    [][last'.op = "similarity_search"
          => /\ last'.ret = "list"
             /\ fs' = fs
             /\ (\/ last'.fault # "none"
                 \/ PositionWithoutEntry(fs[last'.sid], last'.query, last'.k))
                => last'.results = <<>>]_vars

\* C5 witness: a search without fault whose index holds more vectors than
\* the chunk metadata holds chunks, and a position beyond them came back.
C5_Witness ==
    /\ last.op = "similarity_search" /\ last.fault = "none"
    /\ PositionWithoutEntry(fs[last.sid], last.query, last.k)

\* C6: the list a search returns is ordered by non-increasing
\* similarity_score and the rank of its i-th entry is i (counted from 1).
C6_ResultsRanked ==
    last.op = "similarity_search"
        => /\ \A i, j \in 1..Len(last.results) :
                i < j => last.results[i].similarity_score
                             >= last.results[j].similarity_score
           /\ \A i \in 1..Len(last.results) : last.results[i].rank = i

\* C6 witness: three results, the first scored above the last, with k above
\* the number of chunks (the index filled the rest with -1).
C6_Witness ==
    /\ last.op = "similarity_search" /\ last.k > Len(last.results)
    /\ Len(last.results) = 3
    /\ last.results[1].similarity_score > last.results[3].similarity_score

\* C7: a search without fault with limit k on a session built from n chunks
\* returns min(k, n) entries, each a chunk of the session's persisted chunk
\* list, no chunk twice.
C7_ResultCount ==
    \A n \in 1..(MaxChunks + 1) :
        (/\ last.op = "similarity_search" /\ last.fault = "none"
         /\ BuiltFrom(fs[last.sid], last.sid, n))
        => /\ Len(last.results) = Min(last.k, n)
           /\ \A i \in 1..Len(last.results) :
                 \E p \in 1..n :
                    LET c == Content(fs[last.sid].meta)[p]
                    IN /\ last.results[i].chunk_id = c.chunk_id
                       /\ last.results[i].text = c.text
                       /\ last.results[i].token_count = c.token_count
           /\ \A i, j \in 1..Len(last.results) :
                 i # j => last.results[i].chunk_id # last.results[j].chunk_id

\* C7 witness: 3 chunks and k = 5 gave 3 results.
C7_Witness ==
    /\ last.op = "similarity_search" /\ last.fault = "none"
    /\ BuiltFrom(fs[last.sid], last.sid, 3)
    /\ last.k = DefaultK
    /\ Len(last.results) = 3

C11_SessionScoped ==
    [][last'.op \in {"create_embeddings", "similarity_search", "delete_session"}
          => /\ \A s \in SessionIds \ {last'.sid} : fs'[s] = fs[s]
             /\ last'.op = "similarity_search"
                => \A i \in 1..Len(last'.results) :
                      /\ \E cl \in SessionChunkLists(last'.sid) :
                            \E j \in 1..Len(cl) :
                               /\ last'.results[i].text = cl[j].text
                               /\ last'.results[i].chunk_id = cl[j].chunk_id
                      /\ \E j \in 1..Len(Content(fs[last'.sid].meta)) :
                            /\ last'.results[i].text =
                                  Content(fs[last'.sid].meta)[j].text
                            /\ last'.results[i].chunk_id =
                                  Content(fs[last'.sid].meta)[j].chunk_id]_vars

\* C11 witness: a search on s1 returned chunks while s2 has an index of its
\* own, built from another number of chunks.
C11_Witness ==
    /\ last.op = "similarity_search" /\ last.sid = "s1"
    /\ last.results # <<>>
    /\ Persisted(fs["s2"])
    /\ Len(Content(fs["s2"].meta)) # Len(Content(fs["s1"].meta))

\* Caller record pr is a create_embeddings call that has written the index
\* file and the chunk metadata.
HasWrittenIndexAndMeta(pr) ==
    pr.op = "create_embeddings" /\ pr.pc \in {"write_info", "done"}

\* Caller record pr is a search that has returned a non-empty list.
ReturnedChunks(pr) ==
    pr.op = "similarity_search" /\ pr.pc = "done" /\ pr.results # <<>>

\* C12 as amended: a search returns a non-empty list only after some
\* create_embeddings call for the session has written the index file and
\* the chunk metadata (the descriptor need not be written yet, the call
\* need not have returned); a search that has read the files before the
\* first build wrote the chunk metadata returns the empty list.
C12_NonEmptyOnlyAfterIndexAndMeta ==
    \A p \in ProcIds :
        ReturnedChunks(procs[p])
            => \E q \in ProcIds : HasWrittenIndexAndMeta(procs[q])

\* C12 witness: a search has returned chunks while the build of the session
\* has yet to write the descriptor.
C12_Witness ==
    \E p, q \in ProcIds :
        /\ ReturnedChunks(procs[p])
        /\ procs[q].op = "create_embeddings" /\ procs[q].pc = "write_info"
        /\ ~Exists(fs[ConcSession].info)

\* C12 as stated: a search returns a non-empty list only after a
\* create_embeddings call for the session has completed, with the index
\* file, the chunk metadata and the descriptor persisted; a search that runs
\* while the first build is in progress returns the empty list.
C12_NonEmptyOnlyAfterBuildCompleted ==
    \A p \in ProcIds :
        ReturnedChunks(procs[p])
            => /\ \E q \in ProcIds :
                     procs[q].op = "create_embeddings" /\ procs[q].pc = "done"
               /\ Exists(fs[ConcSession].info)

\* The three artifacts of st are those one build of chunk list cl writes.
FromOneBuild(st, sid, cl) ==
    /\ Persisted(st) /\ Exists(st.info)
    /\ Content(st.index) =
          BuildIndex(EmbedAll([i \in 1..Len(cl) |-> cl[i].text], 0))
    /\ Content(st.meta) = cl
    /\ Content(st.info) = SessionInfo(sid, cl)

BuildReturned(pr) ==
    pr.op = "create_embeddings" /\ pr.pc = "done" /\ pr.ret = "True"

\* C13: when the builds of a session are serialized, then once the builds
\* have returned True the index file, the chunk metadata and the descriptor
\* all come from one of them.  (That overlapping builds can leave the index
\* file of one build with the chunk metadata of the other is the witness.)
C13_SerializedBuildsStayConsistent ==
    (/\ ~builds_overlapped
     /\ \E p \in ProcIds : BuildReturned(procs[p])
     /\ \A p \in ProcIds : procs[p].op = "create_embeddings"
                              => BuildReturned(procs[p]))
        => \E p \in ProcIds :
              /\ BuildReturned(procs[p])
              /\ FromOneBuild(fs[ConcSession], ConcSession, procs[p].chunks)

\* C13 witness: two builds with different chunk lists ran at once, both
\* have returned True, and the persisted index file is the one build's
\* while the persisted chunk metadata is the other's.
C13_Witness ==
    /\ builds_overlapped
    /\ \A p \in ProcIds : BuildReturned(procs[p])
    /\ \E p, q \in ProcIds :
          /\ p # q
          /\ procs[p].chunks # procs[q].chunks
          /\ Content(fs[ConcSession].index) = procs[p].index
          /\ Content(fs[ConcSession].index) # procs[q].index
          /\ Content(fs[ConcSession].meta) = procs[q].chunks

\* C14: searches running at once on a built session write nothing, and each
\* returns the list the search returns when it runs alone on the same
\* persisted state.
C14_ConcurrentQueriesSafe ==
    [][/\ fs' = fs
       /\ \A p \in ProcIds :
             (procs'[p].op = "similarity_search" /\ procs'[p].pc = "done")
                => procs'[p].results =
                      similarity_search(fs[session_folder(ConcSession)],
                                        procs'[p].query, procs'[p].k,
                                        "none").results]_vars

\* C14 witness: two searches with different queries have both returned
\* chunks, in different orders.
C14_Witness ==
    /\ \A p \in ProcIds : ReturnedChunks(procs[p])
    /\ procs["p1"].query # procs["p2"].query
    /\ procs["p1"].results[1].chunk_id # procs["p2"].results[1].chunk_id

(***************************************************************************)
(* Properties of the application.                                          *)
(***************************************************************************)
\* C10: once the delete-session route has succeeded for s (the record of s
\* is gone from the session manager), nothing is persisted for s: no
\* directory, index, chunk metadata or descriptor, session_exists(s) is
\* false and a search on s returns the empty list.
C10_IndexDeletedWithSession ==
    (resp.route = "delete_session" /\ resp.status = 200)
        => /\ resp.sid \notin DOMAIN sessions
           /\ fs[resp.sid] = NoDir
           /\ ~session_exists(fs[resp.sid])
           /\ \A q \in Queries :
                 similarity_search(fs[resp.sid], q, DefaultK, "none").results = <<>>

\* C17: when parse_document, chunk_text or create_embeddings raises during
\* an upload, the response of the upload is an error response; it is no
\* success response and it carries no session id.
C17_UploadFailsOnErrors ==
    (/\ resp.route = "upload"
     /\ last.op \in {"parse_document", "chunk_text", "create_embeddings"}
     /\ last.ret = "raise")
        => /\ resp.status = 500
           /\ resp.sid = ""

\* C17 witness: the write of the descriptor failed in create_embeddings,
\* with the index file and the chunk metadata of the session written, and
\* the upload answered with an error.
C17_Witness ==
    /\ resp.route = "upload" /\ resp.status = 500
    /\ last.op = "create_embeddings" /\ last.fault = "write_info"
    /\ last.ret = "raise"
    /\ Persisted(fs[last.sid])

(***************************************************************************)
(* Properties of the parser.                                               *)
(***************************************************************************)
SupportedTypes ==
    {<<"p", "d", "f">>, <<"d", "o", "c", "x">>, <<"d", "o", "c">>, <<"t", "x", "t">>}

Strategies == {"_parse_pdf", "_parse_docx", "_parse_txt"}

StrategyOf(ft) ==
    IF ft = <<"p", "d", "f">> THEN "_parse_pdf"
    ELSE IF ft = <<"t", "x", "t">> THEN "_parse_txt"
    ELSE "_parse_docx"

\* C15: parse_document raises the unsupported-format error exactly when the
\* declared type, in lower case, is none of pdf, docx, doc, txt, and it has
\* then called no strategy and opened no file; for an accepted type the
\* strategy of that type is called, and no other strategy.
C15_UnsupportedFormat ==
    parse.pc = "done"
        => /\ parse.kind = "UnsupportedFormat"
                <=> Lower(parse.file_type) \notin SupportedTypes
           /\ parse.kind = "UnsupportedFormat" => parse.calls = <<>>
           /\ Lower(parse.file_type) \in SupportedTypes
                => /\ parse.calls # <<>>
                   /\ \A i \in 1..Len(parse.calls) :
                         parse.calls[i].fn \in Strategies
                            <=> (/\ i = 1
                                 /\ parse.calls[i].fn =
                                       StrategyOf(Lower(parse.file_type)))

\* C15 witness: the declared type "Doc" went to the docx strategy, which
\* returned the text of the file.
C15_Witness ==
    /\ parse.pc = "done" /\ parse.file_type = <<"D", "o", "c">>
    /\ parse.calls[1].fn = "_parse_docx"
    /\ parse.kind = "text" /\ parse.text # <<>>

(***************************************************************************)
(* Properties of the chunker.                                              *)
(***************************************************************************)
\* The sentences of a list of lists, in order.
RECURSIVE Flatten(_)
Flatten(ls) == IF ls = <<>> THEN <<>> ELSE Head(ls) \o Flatten(Tail(ls))

\* Chunk i consists of one single sentence that alone exceeds chunk_size.
SingleOversizedSentence(i) ==
    /\ added[i].seed = <<>>
    /\ Len(added[i].sents) = 1
    /\ Len(Encode(added[i].sents[1])) > chunk_size

\* C2: every chunk chunk_text returns has at most chunk_size tokens, unless
\* it consists of one single sentence that alone has more; stated here for
\* the configurations with 0 <= chunk_overlap < chunk_size only.
C2_ChunksWithinChunkSize ==
    (pc = "done" /\ 0 <= chunk_overlap /\ chunk_overlap < chunk_size)
        => \A i \in 1..Len(chunks) :
              \/ Len(Encode(chunks[i].text)) <= chunk_size
              \/ SingleOversizedSentence(i)

\* C3: for a non-blank text, the first chunk is its sentences joined by
\* spaces, every later chunk is its overlap seed, a space and its sentences
\* joined by spaces (trimmed), and the sentences of the chunks, in chunk
\* order, are exactly the sentences of the text: none dropped, none twice.
C3_NoSentenceDropped ==
    (pc = "done" /\ Strip(text) # <<>>)
        => /\ Len(added) = Len(chunks)
           /\ Flatten([i \in 1..Len(added) |-> added[i].sents]) = sent_tokenize(text)
           /\ \A i \in 1..Len(chunks) : added[i].sents # <<>>
           /\ \A i \in 1..Len(chunks) :
                 chunks[i].text =
                    IF added[i].seeded
                    THEN Strip(added[i].seed \o <<" ">> \o JoinSp(added[i].sents))
                    ELSE JoinSp(added[i].sents)
           /\ \A i \in 1..Len(chunks) : added[i].seeded <=> i > 1
           /\ \A i \in 2..Len(chunks) :
                 added[i].seed = get_overlap_text(
                     IF added[i - 1].seeded
                     THEN added[i - 1].seed \o <<" ">> \o JoinSp(added[i - 1].sents)
                     ELSE JoinSp(added[i - 1].sents),
                     chunk_overlap)

\* C3 witness: three sentences came out as three chunks, the later two
\* seeded with a non-empty overlap.
C3_Witness ==
    /\ pc = "done" /\ Len(sentences) = 3 /\ Len(chunks) = 3
    /\ added[2].seed # <<>> /\ added[3].seed # <<>>

\* C16: chunk_text returns the empty list exactly when the text is empty or
\* consists of white space only; for every other text it returns at least
\* one chunk; and no chunk it returns has a text that is empty when trimmed.
C16_EmptyExactlyForBlankText ==
    pc = "done"
        => /\ chunks = <<>> <=> Strip(text) = <<>>
           /\ \A i \in 1..Len(chunks) : Strip(chunks[i].text) # <<>>

\* C16 witness: a text of white space only came back as the empty list.
C16_Witness ==
    /\ pc = "done" /\ text # <<>> /\ Strip(text) = <<>>
    /\ chunks = <<>>

\* The last n tokens of toks, none when n <= 0.
LastTokens(toks, n) ==
    IF n <= 0 THEN <<>> ELSE SubSeq(toks, Len(toks) - n + 1, Len(toks))

\* The seed taken from the text t of a closed chunk: the decoding of its
\* last chunk_overlap tokens when it has more, all of t otherwise.
SeedOf(t) ==
    IF Len(Encode(t)) > chunk_overlap
    THEN Decode(LastTokens(Encode(t), chunk_overlap))
    ELSE t

IsPrefix(a, b) == Len(a) <= Len(b) /\ SubSeq(b, 1, Len(a)) = a

\* C18: for every chunk i that has a successor, the text of chunk i+1 begins
\* with the seed, a space and the next sentence (trimmed, as every chunk
\* text is), the seed being the decoding of the last chunk_overlap tokens of
\* the encoding of chunk i's text when chunk i has more than chunk_overlap
\* tokens, and the whole text of chunk i otherwise.
C18_OverlapSeeding ==
    pc = "done"
        => \A i \in 1..(Len(chunks) - 1) :
              IsPrefix(Strip(SeedOf(chunks[i].text) \o <<" ">>
                                \o added[i + 1].sents[1]),
                       chunks[i + 1].text)

\* C18 witness: of three chunks the first has more tokens than chunk_overlap
\* and seeds the second with its last tokens only, and the second chunk
\* starts with that seed.
C18_Witness ==
    /\ pc = "done" /\ Len(chunks) = 3 /\ chunk_overlap = 2
    /\ Len(Encode(chunks[1].text)) > chunk_overlap
    /\ Len(SeedOf(chunks[1].text)) < Len(chunks[1].text)
    /\ IsPrefix(Strip(SeedOf(chunks[1].text)), chunks[2].text)

\* C19: with chunk_overlap zero or negative every seed is empty, every chunk
\* is the sentences added to it joined by spaces, the chunks taken in order
\* hold the sentences of the text one run after the other, each sentence in
\* exactly one chunk, and so the chunks joined by spaces are the sentences
\* joined by spaces: nothing of chunk i is repeated in chunk i+1.
C19_NoOverlapPartitionsSentences ==
    (pc = "done" /\ chunk_overlap <= 0 /\ Strip(text) # <<>>)
        => /\ \A i \in 1..Len(chunks) :
                 /\ added[i].seed = <<>>
                 /\ added[i].sents # <<>>
                 /\ chunks[i].text = JoinSp(added[i].sents)
           /\ Flatten([i \in 1..Len(added) |-> added[i].sents]) = sent_tokenize(text)
           /\ JoinSp([i \in 1..Len(chunks) |-> chunks[i].text])
                 = JoinSp(sent_tokenize(text))

\* C19 witness: with chunk_overlap -1 three sentences came out as two
\* chunks, the first of them holding two sentences.
C19_Witness ==
    /\ pc = "done" /\ chunk_overlap = -1
    /\ Len(sentences) = 3 /\ Len(chunks) = 2
    /\ Len(added[1].sents) = 2

\* C20: in every iteration of the loop the current chunk is closed exactly
\* when the buffer is not empty and the running token count plus the token
\* count of the sentence exceeds chunk_size; otherwise the sentence is
\* appended to the buffer and its token count added to the running count,
\* also when the buffer is empty and the sentence alone exceeds chunk_size.
\* And three sentences of ten tokens with chunk_size 25 and chunk_overlap 5
\* give two chunks: chunk 0 is sentences 1 and 2 with token count 20,
\* chunk 1 is the last 5 tokens of chunk 0 followed by sentence 3.
C20_CloseRule ==
    /\ [][(pc = "loop" /\ pos' = pos + 1)
            => LET sentence == sentences[pos + 1]
                   n == Len(Encode(sentence))
                   close == current_chunk # <<>> /\ current_tokens + n > chunk_size
               IN /\ close <=> Len(chunks') = Len(chunks) + 1
                  /\ close => /\ SubSeq(chunks', 1, Len(chunks)) = chunks
                              /\ chunks'[Len(chunks')].text = Strip(current_chunk)
                              /\ chunks'[Len(chunks')].token_count = current_tokens
                  /\ ~close => /\ chunks' = chunks
                               /\ current_tokens' = current_tokens + n
                               /\ current_chunk' =
                                     IF current_chunk = <<>> THEN sentence
                                     ELSE current_chunk \o <<" ">> \o sentence]_vars
    /\ []((/\ pc = "done"
           /\ chunk_size = Scenario.chunk_size
           /\ chunk_overlap = Scenario.chunk_overlap
           /\ text = Scenario.text)
             => /\ Len(chunks) = 2
                /\ chunks[1].text = JoinSp(SubSeq(TenTokenSentences, 1, 2))
                /\ chunks[1].token_count = 20
                /\ chunks[1].chunk_id = 0
                /\ chunks[2].chunk_id = 1
                /\ chunks[2].text =
                      Strip(Decode(LastTokens(Encode(chunks[1].text), 5))
                               \o <<" ">> \o TenTokenSentences[3]))

\* C20 witness: the three sentences of ten tokens came out as two chunks,
\* and each of the sentences has ten tokens.
C20_Witness ==
    /\ pc = "done" /\ text = Scenario.text /\ chunk_size = Scenario.chunk_size
    /\ Len(chunks) = 2
    /\ \A i \in 1..3 : Len(Encode(TenTokenSentences[i])) = 10
    /\ sentences = TenTokenSentences

(***************************************************************************)
(* Properties of the pipeline from chunk_text to the persisted index.      *)
(***************************************************************************)
\* The positions the index of st returns for (query, k), without the -1s.
Positions(st, query, k) ==
    LET hits == index_search(Content(st.index), NormalizeL2(Embed(query)), k)
        IsValid(h) == h.idx # -1
    IN SelectSeq(hits, IsValid)

\* C21: the chunk at list position i of the list chunk_text builds and
\* returns has chunk_id i (counted from 0), so the ids are 0, 1, ..., n-1
\* without gap or duplicate; after a build that returned True the persisted
\* chunk metadata is that list in that order and vector i of the index is
\* the embedding of the chunk with chunk_id i; and the chunk a search
\* returns for index position i is the chunk with chunk_id i.
C21_ChunkIdsAreListPositions ==
    /\ \A i \in 1..Len(chunks) : chunks[i].chunk_id = i - 1
    /\ (pc = "embedded" /\ last.op = "create_embeddings" /\ last.ret = "True")
          => LET st == fs[last.sid] IN
             /\ Persisted(st)
             /\ Content(st.meta) = StoreChunks(chunks)
             /\ Len(Content(st.index)) = Len(chunks)
             /\ \A i \in 1..Len(chunks) :
                   /\ Content(st.meta)[i].chunk_id = i - 1
                   /\ Content(st.index)[i]
                         = NormalizeL2(Embed(TextNumber(chunks[i].text)))
    /\ (pc = "embedded" /\ last.op = "similarity_search"
           /\ BuiltFrom(fs[last.sid], last.sid, Len(chunks)))
          => LET hits == Positions(fs[last.sid], last.query, last.k) IN
             /\ Len(last.results) = Len(hits)
             /\ \A j \in 1..Len(hits) :
                   /\ last.results[j].chunk_id = hits[j].idx
                   /\ last.results[j].text
                         = TextNumber(chunks[hits[j].idx + 1].text)

\* C21 witness: a search on the index built from three chunks returned the
\* three of them, and not in the order of their chunk_ids.
C21_Witness ==
    /\ pc = "embedded" /\ Len(chunks) = 3
    /\ last.op = "similarity_search"
    /\ BuiltFrom(fs[last.sid], last.sid, 3)
    /\ Len(last.results) = 3
    /\ last.results[1].chunk_id # 0
    /\ {last.results[j].chunk_id : j \in 1..3} = {0, 1, 2}

(***************************************************************************)
(* Further properties of the chunker.                                      *)
(***************************************************************************)
\* C22: for every chunk chunk_text returns, token_count is the number of
\* tokens the tokenizer produces for the chunk's text, for the chunks built
\* by appending sentences only and for the chunks that start with a seed.
C22_TokenCountMatchesText ==
    pc = "done"
        => \A i \in 1..Len(chunks) :
              chunks[i].token_count = Len(Encode(chunks[i].text))

(***************************************************************************)
(* Further properties of the vector store.                                 *)
(***************************************************************************)
\* C23: a create_embeddings call on n >= 1 chunks in which no embedding call
\* fails calls the provider once per batch, ceil(n / 100) times; the
\* batches are consecutive runs of the chunk texts in chunk order, each of
\* 100 texts but the last, which has the rest; and when the call returns
\* True the index holds n vectors, vector i the normalised embedding of the
\* text of chunk i, the chunk metadata is the list handed in, and the
\* descriptor's num_chunks is n.
C23_BatchesKeepChunkOrder ==
    (/\ last.op = "create_embeddings" /\ last.chunks # <<>>
     /\ last.fault # "embed")
        => LET n == Len(last.chunks)
               texts == [i \in 1..n |-> last.chunks[i].text]
               st == fs[last.sid]
           IN /\ last.calls = Len(last.batches)
              /\ Len(last.batches) * BatchSize >= n
              /\ (Len(last.batches) - 1) * BatchSize < n
              /\ \A b \in 1..Len(last.batches) :
                    /\ Len(last.batches[b]) \in 1..BatchSize
                    /\ b < Len(last.batches) => Len(last.batches[b]) = BatchSize
              /\ Flatten(last.batches) = texts
              /\ last.ret = "True"
                    => /\ BuiltFrom(st, last.sid, n)
                       /\ Content(st.meta) = last.chunks
                       /\ Content(st.index)
                             = [i \in 1..n |-> NormalizeL2(Embed(texts[i]))]
                       /\ Content(st.info).num_chunks = n

\* C23 witness: a build of two full batches and one more chunk made three
\* embedding calls and returned True.
C23_Witness ==
    /\ last.op = "create_embeddings" /\ last.ret = "True"
    /\ Len(last.chunks) = 2 * BatchSize + MaxExtra
    /\ last.calls = 3
    /\ Len(last.batches[3]) = MaxExtra
    /\ Len(Content(fs[last.sid].index)) = 2 * BatchSize + MaxExtra

(***************************************************************************)
(* Further properties of the parser.                                       *)
(***************************************************************************)
IsPdf(ft) == Lower(ft) = <<"p", "d", "f">>

\* The fallback strategy was called.
HasFallback(calls) == \E i \in 1..Len(calls) : calls[i].fn = "_parse_pdf_pymupdf"

FallbackAt(calls) ==
    CHOOSE i \in 1..Len(calls) : calls[i].fn = "_parse_pdf_pymupdf"

\* The calls made before the fallback strategy was called, and those after.
PrimaryPart(calls) ==
    IF HasFallback(calls) THEN SubSeq(calls, 1, FallbackAt(calls) - 1) ELSE calls

FallbackPart(calls) ==
    IF HasFallback(calls)
    THEN SubSeq(calls, FallbackAt(calls) + 1, Len(calls))
    ELSE <<>>

\* The pages OCR was invoked for, in the order of the invocations.
OcrPages(calls) ==
    LET IsOcr(c) == c.fn = "_ocr_pdf_page"
        ocrs == SelectSeq(calls, IsOcr)
    IN [i \in 1..Len(ocrs) |-> ocrs[i].arg]

\* The pages whose text, as lib extracts it, has fewer than th characters
\* when trimmed, in page order.
LowTextPages(file, lib, th) ==
    LET IsLow(n) == /\ file.pages[n][lib].ok
                    /\ Len(StripWs(file.pages[n][lib].text)) < th
    IN SelectSeq([n \in 1..Len(file.pages) |-> n], IsLow)

\* What the pages from n on contribute: nothing for a page whose extraction
\* raised, the OCR text (empty when OCR failed) for a page with little text,
\* the extracted text for the others, each followed by a line break.
RECURSIVE PagesExpected(_, _, _, _)
PagesExpected(file, lib, n, th) ==
    IF n > Len(file.pages) THEN <<>>
    ELSE LET pg == file.pages[n]
             here == IF ~pg[lib].ok THEN <<>>
                     ELSE IF Len(StripWs(pg[lib].text)) >= th
                     THEN pg[lib].text \o <<"\n">>
                     ELSE IF pg.ocr.ok THEN pg.ocr.text \o <<"\n">>
                     ELSE <<"\n">>
         IN here \o PagesExpected(file, lib, n + 1, th)

\* C24: in the primary and in the fallback extraction alike, OCR is invoked
\* for exactly the pages whose extracted text, trimmed, is shorter than
\* ocr_threshold, once per such page and in page order, and the OCR text
\* takes the place of the extracted text of those pages only.  With the
\* default threshold 50, a page with 10 characters is read by OCR while the
\* pages with 50 and 60 characters keep their text and invoke no OCR.
C24_OcrExactlyBelowThreshold ==
    (parse.pc = "done" /\ IsPdf(parse.file_type))
        => LET file == parse.file
               th == parse.ocr_threshold
               lib == IF HasFallback(parse.calls) THEN "mupdf" ELSE "plumber"
           IN /\ OcrPages(PrimaryPart(parse.calls))
                    = IF file.plumber_ok THEN LowTextPages(file, "plumber", th)
                      ELSE <<>>
              /\ OcrPages(FallbackPart(parse.calls))
                    = IF HasFallback(parse.calls) /\ file.mupdf_ok
                      THEN LowTextPages(file, "mupdf", th)
                      ELSE <<>>
              /\ parse.kind = "text"
                    => parse.text = StripWs(PagesExpected(file, lib, 1, th))
              /\ (file \in ScenarioPdfs /\ parse.kind = "text")
                    => \E n \in 1..3 :
                          /\ Len(file.pages[n][lib].text) = 10
                          /\ OcrPages(IF lib = "mupdf"
                                      THEN FallbackPart(parse.calls)
                                      ELSE PrimaryPart(parse.calls)) = <<n>>
                          /\ IsPrefix(Rep("o", 2), parse.text) <=> n = 1

\* C24 witness: the document whose second page has 10 characters was parsed
\* by the fallback after pdfplumber failed at the end; either strategy
\* invoked OCR for page 2 only, and the text is that of PyMuPDF for pages 1
\* and 3 with the OCR text in between.
C24_Witness ==
    /\ parse.pc = "done" /\ parse.file \in ScenarioPdfs
    /\ parse.ocr_threshold = DefaultOcrThreshold
    /\ OcrPages(PrimaryPart(parse.calls)) = <<2>>
    /\ OcrPages(FallbackPart(parse.calls)) = <<2>>
    /\ parse.text = Rep("m", 60) \o <<"\n", "o", "o", "\n">> \o Rep("m", 50)

\* The document with every failing OCR replaced by an OCR that reads
\* nothing.
OcrAsEmpty(file) ==
    [file EXCEPT !.pages =
        [n \in 1..Len(file.pages) |->
            IF file.pages[n].ocr.ok THEN file.pages[n]
            ELSE [file.pages[n] EXCEPT !.ocr = Got(<<>>)]]]

\* The pages for which OCR was invoked and failed.
OcrFailedPages(file, calls) ==
    {n \in 1..Len(file.pages) :
        /\ \E i \in 1..Len(calls) :
              calls[i].fn = "_ocr_pdf_page" /\ calls[i].arg = n
        /\ ~file.pages[n].ocr.ok}

\* C25: when OCR fails on a page of a PDF, parse_document still returns the
\* text unless both libraries failed on the document as a whole; the page
\* whose OCR failed contributes the empty string, the other pages their
\* text in page order, so the result is the one of the same document with
\* an OCR that reads nothing on that page.
C25_OcrFailureIsPerPage ==
    (/\ parse.pc = "done" /\ IsPdf(parse.file_type)
     /\ OcrFailedPages(parse.file, parse.calls) # {})
        => LET file == parse.file
               th == parse.ocr_threshold
               lib == IF HasFallback(parse.calls) THEN "mupdf" ELSE "plumber"
               same == parse_document(OcrAsEmpty(file), parse.file_type, th)
           IN /\ parse.kind = "text"
                    <=> \/ file.plumber_ok /\ file.plumber_close_ok
                        \/ file.mupdf_ok
              /\ parse.kind # "text" => parse.kind = "LibraryError"
              /\ parse.kind = same.kind /\ parse.text = same.text
              /\ parse.calls = same.calls
              /\ parse.kind = "text"
                    => parse.text = StripWs(PagesExpected(file, lib, 1, th))

\* C25 witness: of two pages with little text OCR failed on the second and
\* read the first; the text returned is the OCR text of the first page.
C25_Witness ==
    /\ parse.pc = "done" /\ IsPdf(parse.file_type)
    /\ Len(parse.file.pages) = 2
    /\ OcrPages(parse.calls) = <<1, 2>>
    /\ OcrFailedPages(parse.file, parse.calls) = {2}
    /\ parse.kind = "text"
    /\ parse.text = parse.file.pages[1].ocr.text
    /\ parse.text # <<>>

\* C26: the fallback strategy is called at most once, and exactly when
\* pdfplumber failed on the document (when opening it or later), after
\* pdfplumber was tried; the text returned is then the text of the fallback
\* alone, with nothing of what pdfplumber had gathered; and parse_document
\* raises for a PDF exactly when pdfplumber and PyMuPDF both failed on the
\* document.
C26_FallbackChain ==
    (parse.pc = "done" /\ IsPdf(parse.file_type))
        => LET file == parse.file
               th == parse.ocr_threshold
               calls == parse.calls
               primaryFailed == ~(file.plumber_ok /\ file.plumber_close_ok)
               IsFallback(c) == c.fn = "_parse_pdf_pymupdf"
           IN /\ Len(SelectSeq(calls, IsFallback)) <= 1
              /\ HasFallback(calls) <=> primaryFailed
              /\ HasFallback(calls)
                    => /\ \E i \in 1..(FallbackAt(calls) - 1) :
                             calls[i].fn = "pdfplumber.open"
                       /\ \A i \in 1..Len(calls) :
                             calls[i].fn = "fitz.open" => i > FallbackAt(calls)
              /\ ~HasFallback(calls)
                    => \A i \in 1..Len(calls) : calls[i].fn # "fitz.open"
              /\ parse.kind # "text" <=> (primaryFailed /\ ~file.mupdf_ok)
              /\ (parse.kind = "text" /\ primaryFailed)
                    => /\ parse.text = StripWs(PagesExpected(file, "mupdf", 1, th))
                       /\ \A i \in 1..Len(parse.text) : parse.text[i] # "a"
              /\ (parse.kind = "text" /\ ~primaryFailed)
                    => parse.text = StripWs(PagesExpected(file, "plumber", 1, th))

\* C26 witness: pdfplumber extracted the text of a page and then failed on
\* the document; the fallback was called and the text returned is the one
\* PyMuPDF extracted.
C26_Witness ==
    /\ parse.pc = "done" /\ IsPdf(parse.file_type)
    /\ parse.file.plumber_ok /\ ~parse.file.plumber_close_ok
    /\ parse.ocr_threshold = 2
    /\ Len(parse.file.pages) = 1
    /\ parse.file.pages[1].plumber = Got(<<"a", "a", "a">>)
    /\ HasFallback(parse.calls)
    /\ parse.kind = "text"
    /\ parse.text = <<"m", "m", "m">>

IsTxt(ft) == Lower(ft) = <<"t", "x", "t">>

\* C27: for a text file the encodings are tried in the order UTF-8, Latin-1,
\* CP1252, ISO-8859-1, up to and including the first that decodes; the text
\* returned is the text of that decoding; and the undecodable-text error is
\* raised exactly when none of the four decodes.
C27_FirstDecodingWins ==
    (parse.pc = "done" /\ IsTxt(parse.file_type))
        => LET d == parse.file.decodes
               oks == {n \in 1..Len(Encodings) : d[Encodings[n]].ok}
               first == IF oks = {} THEN Len(Encodings)
                        ELSE CHOOSE n \in oks : \A o \in oks : n <= o
               IsOpen(c) == c.fn = "open"
               opens == SelectSeq(parse.calls, IsOpen)
           IN /\ Encodings = <<"utf8", "latin1", "cp1252", "iso8859">>
              /\ opens = [n \in 1..first |-> Call("open", n)]
              /\ oks # {} => /\ parse.kind = "text"
                             /\ parse.text = d[Encodings[first]].text
              /\ parse.kind = "Undecodable" <=> oks = {}
              /\ parse.kind \in {"text", "Undecodable"}

\* C27 witness: the bytes are no UTF-8 and would decode as CP1252 too; the
\* Latin-1 text was returned and no later encoding was tried.
C27_Witness ==
    /\ parse.pc = "done" /\ IsTxt(parse.file_type)
    /\ ~parse.file.decodes.utf8.ok
    /\ parse.file.decodes.cp1252.ok
    /\ parse.kind = "text" /\ parse.text = <<"l">>
    /\ parse.calls = <<Call("_parse_txt", 0), Call("open", 1), Call("open", 2)>>

(***************************************************************************)
(* Properties of what is persisted for a session.                          *)
(***************************************************************************)
\* The three artifacts of st were written by one build for session sid.
FromOneSave(st, sid) ==
    /\ Exists(st.index) /\ Exists(st.meta) /\ Exists(st.info)
    /\ Content(st.index)
          = [i \in 1..Len(Content(st.meta)) |->
                NormalizeL2(Embed(Content(st.meta)[i].text))]
    /\ Content(st.info) = SessionInfo(sid, Content(st.meta))

\* C28: whenever no create_embeddings call is running (in Spec: in every
\* state), the storage of a session holds none of the index file, the chunk
\* metadata and the descriptor, or all three as one build wrote them, also
\* after a write of the save failed and after a rebuild.
C28_PersistenceAllOrNothing ==
    \A s \in SessionIds :
        \/ /\ ~Exists(fs[s].index) /\ ~Exists(fs[s].meta) /\ ~Exists(fs[s].info)
        \/ FromOneSave(fs[s], s)

(***************************************************************************)
(* Further properties of the routes.                                       *)
(***************************************************************************)
\* C29: once an upload request has ended, every session record the session
\* manager holds has a persisted index: an upload that answered with
\* success left session_exists true for the session id it returned, and an
\* upload that answered with an error left no record of the session it had
\* created.
C29_SessionRecordsHaveIndex ==
    /\ \A sid \in DOMAIN sessions : session_exists(fs[session_folder(sid)])
    /\ (resp.route = "upload" /\ resp.status = 200)
          => session_exists(fs[session_folder(resp.sid)])
    /\ (resp.route = "upload" /\ resp.status = 500)
          => last.sid \notin DOMAIN sessions

(***************************************************************************)
(* The empty chunk list.                                                   *)
(***************************************************************************)
\* C30: create_embeddings with an empty chunk list returns False, raises
\* nothing, makes no embedding call and leaves the storage of every session
\* as it was: session_exists of the session is what it was before the call
\* (false for a session never built), and what was persisted for the session
\* earlier answers every search as before.
C30_EmptyChunkListChangesNothing ==
    [][(last'.op = "create_embeddings" /\ last'.chunks = <<>>)
          => /\ last'.ret = "False"
             /\ last'.calls = 0 /\ last'.batches = <<>>
             /\ fs' = fs
             /\ session_exists(fs'[last'.sid]) <=> session_exists(fs[last'.sid])
             /\ ~fs[last'.sid].dir => ~session_exists(fs'[last'.sid])
             /\ \A q \in Queries, k \in KValues :
                   similarity_search(fs'[last'.sid], q, k, "none")
                      = similarity_search(fs[last'.sid], q, k, "none")]_vars

\* C30 witness: create_embeddings with the empty list returned False on a
\* session that holds the index of three chunks, and a search on it still
\* finds the three.
C30_Witness ==
    /\ last.op = "create_embeddings" /\ last.chunks = <<>>
    /\ last.ret = "False"
    /\ BuiltFrom(fs[last.sid], last.sid, 3)
    /\ Len(similarity_search(fs[last.sid], 101, DefaultK, "none").results) = 3
    /\ \E s \in SessionIds : ~fs[s].dir /\ ~session_exists(fs[s])

====
